---- MODULE Spec2Model ----
(***************************************************************************)
(* Middleware pipeline of utilities/middleware/index.js.                   *)
(*                                                                         *)
(* A handler is wired once (composeMiddleware or withMiddleware) and then  *)
(* invoked.  JavaScript runs one invocation at a time to its next await;   *)
(* `running` is the invocation that holds the thread.  Every action is one *)
(* synchronous segment of one function of the source.                      *)
(***************************************************************************)
EXTENDS Integers, Sequences, FiniteSets, TLC

\* ------------------------------------------------------------------ bounds
MaxSteps == 3
MaxRequests == 2
MaxWindow == 2
MaxTime == 4

\* ------------------------------------------------------------- the inputs
Invocations == {"i1", "i2"}
None == "none"

\* The steps a chain is wired from.  "pass" .. "twice" are steps supplied by
\* the caller of the library; the others are the library's own.
\*   pass     (e, c, next) => next(e, c)
\*   respond  (e, c, next) => ({statusCode: 200, body: ...})
\*   void     (e, c, next) => {}                 returns undefined, no next
\*   throw    (e, c, next) => { throw new Error() }
\*   reject   async (e, c, next) => { throw new Error() }
\*   twice    (e, c, next) => { next(e, c); return next(e, c) }
\*   errh     MiddlewareHelper.errorHandlingMiddleware(errorHandler)
\*   cors     corsMiddleware handed over as a function value
\*   corsBound  corsMiddleware.bind(MiddlewareHelper)
UserKinds == {"pass", "respond", "void", "throw", "reject", "twice"}
StepKinds == UserKinds \cup {"errh", "cors", "corsBound"}
HandlerKinds == {"ok", "throw", "reject"}
Methods == {"GET", "OPTIONS"}
NoIp == "none"
SourceIps == {"10.0.0.1", NoIp}

RECURSIVE SeqsUpTo(_, _)
SeqsUpTo(S, n) ==
  IF n = 0 THEN {<< >>}
  ELSE LET shorter == SeqsUpTo(S, n - 1)
       IN  shorter \cup {Append(s, x) : s \in {t \in shorter : Len(t) = n - 1}, x \in S}

Chains == SeqsUpTo(StepKinds, MaxSteps)


VARIABLES
  mode,         \* "compose" or "with": which builder wired the handler
  middlewares,  \* the steps, in the order supplied
  handler,      \* withMiddleware's terminal handler
  inv,          \* per invocation: the locals of the built handler's call
  running,      \* the invocation that holds the thread, or None
  maxRequests,  \* rateLimitingMiddleware(maxRequests, windowMs)
  windowMs,
  self,         \* `const self = this` of the factory call
  requests,     \* the limiter's Map: clientId -> timestamps
  now,          \* Date.now()
  admitted,     \* history: per clientId, the admissions younger than windowMs
  input,        \* a call of a function of the error or response module
  output        \* what that call returned or threw

wiring == <<mode, middlewares, handler, maxRequests, windowMs, self>>
limiter == <<requests, now, admitted>>
boundary == <<input, output>>
vars == <<mode, middlewares, handler, inv, running,
          maxRequests, windowMs, self, requests, now, admitted, input, output>>

\* ------------------------------------------------------------ JS values
\* A completion: how a call ended and with which value.
Comp(c, t, status, by, err, headers, body) ==
  [c |-> c, t |-> t, status |-> status, by |-> by, err |-> err,
   headers |-> headers, body |-> body, details |-> {}]

NoComp == Comp("none", "none", 0, -2, "", {}, "")
RetUndefined == Comp("return", "undefined", 0, -2, "", {}, "")
RetNull == Comp("return", "null", 0, -2, "", {}, "")
RetResponse(status, by, err, headers, body) ==
  Comp("return", "response", status, by, err, headers, body)
RetRejected(err, by) == Comp("return", "rejected", 0, by, err, {}, "")
Thrown(err, by) == Comp("throw", "error", 0, by, err, {}, "")

HandlerPos == -1

DEFAULT_CORS_HEADERS ==
  {"Access-Control-Allow-Origin", "Access-Control-Allow-Credentials",
   "Access-Control-Allow-Headers", "Access-Control-Allow-Methods"}

\* `result && result.statusCode`
IsResponseNotUndefined(r) == r.c = "return" /\ r.t # "undefined"
IsResponse(r) == r.c = "return" /\ r.t = "response" /\ r.status # 0

\* What a caller that awaits the built handler observes as a failure.
Raised(r) == r.c = "throw" \/ (r.c = "return" /\ r.t = "rejected")

\* The receiver of a step called as `middleware(evt, ctx, next)`: a static
\* method handed over as a value has lost the class it was read from.
ThisOf(kind) ==
  IF kind \in {"corsBound", "jsonBound"} THEN "MiddlewareHelper" ELSE "undefined"

\* ----------------------------------------------------- invocation locals
Frame(k) == [k |-> k, at |-> "start", nx |-> 0]

\* The locals of one call of the limiter: clientId, now, clientRequests.
NoRl == [clientId |-> "", now |-> 0, list |-> << >>]

\* The event of a request: its raw body, its Authorization header, its path
\* and query parameters, and the annotations the steps add to it.
Undefined == "undefined"
Params == {"id", "page"}
NoEvent ==
  [body |-> Undefined, authorization |-> Undefined,
   pathParameters |-> [p \in Params |-> "good"],
   queryStringParameters |-> [p \in Params |-> "good"],
   parsedBody |-> Undefined, validatedData |-> Undefined,
   validatedQuery |-> {}, user |-> Undefined]

IdleLocals(index) ==
  [pc |-> "idle", method |-> "", ip |-> NoIp, index |-> index, stack |-> << >>,
   ret |-> NoComp, result |-> NoComp,
   calls |-> << >>, nexts |-> << >>, outs |-> << >>, hruns |-> 0,
   unhandled |-> {}, rl |-> NoRl, room |-> "n/a",
   event |-> NoEvent, atHandler |-> NoEvent, checked |-> << >>, log |-> << >>]

Top(l) == l.stack[Len(l.stack)]
Kind(k) == middlewares[k + 1]
TopKind(l) == Kind(Top(l).k)
Caller(l) == IF l.stack = << >> THEN -1 ELSE Top(l).k

SetTop(l, at) ==
  [l EXCEPT !.stack[Len(l.stack)].at = at,
            !.stack[Len(l.stack)].nx = @ + 1]

\* The top frame ends with completion r.
Pop(l, r) ==
  [l EXCEPT !.stack = SubSeq(@, 1, Len(@) - 1),
            !.ret = r,
            !.outs = Append(@, [k |-> Top(l).k, nx |-> Top(l).nx, comp |-> r])]

\* `let index = 0` of a new call of the composed function.
InvokeIndexStale(old) == old
InvokeIndex(old) == 0

\* function next(evt, ctx) of composeMiddleware, called by the top frame
\* (or by the composed function itself when no step is running).
NextComposeNoAdvance(l) ==
  IF l.index >= Len(middlewares)
  THEN [l EXCEPT !.ret = Thrown("NoMoreMiddleware", Caller(l)),
                 !.nexts = Append(@, [caller |-> Caller(l), idx |-> l.index,
                                      raised |-> TRUE])]
  ELSE [l EXCEPT !.stack = Append(@, Frame(l.index)),
                 !.ret = NoComp,
                 !.calls = Append(@, l.index),
                 !.nexts = Append(@, [caller |-> Caller(l), idx |-> l.index,
                                      raised |-> FALSE])]

NextComposeNoThrow(l) ==
  IF l.index >= Len(middlewares)
  THEN [l EXCEPT !.ret = RetUndefined,
                 !.nexts = Append(@, [caller |-> Caller(l), idx |-> l.index,
                                      raised |-> FALSE])]
  ELSE [l EXCEPT !.stack = Append(@, Frame(l.index)),
                 !.index = @ + 1,
                 !.ret = NoComp,
                 !.calls = Append(@, l.index),
                 !.nexts = Append(@, [caller |-> Caller(l), idx |-> l.index,
                                      raised |-> FALSE])]

NextCompose(l) ==
  IF l.index >= Len(middlewares)
  THEN [l EXCEPT !.ret = Thrown("NoMoreMiddleware", Caller(l)),
                 !.nexts = Append(@, [caller |-> Caller(l), idx |-> l.index,
                                      raised |-> TRUE])]
  ELSE [l EXCEPT !.stack = Append(@, Frame(l.index)),
                 !.index = @ + 1,
                 !.ret = NoComp,
                 !.calls = Append(@, l.index),
                 !.nexts = Append(@, [caller |-> Caller(l), idx |-> l.index,
                                      raised |-> FALSE])]

\* The callback withMiddleware hands to a step: it stores its arguments and
\* returns null.
NextWith(l) ==
  [l EXCEPT !.ret = RetNull,
            !.nexts = Append(@, [caller |-> Caller(l), idx |-> l.index,
                                 raised |-> FALSE])]

\* The top frame calls next(evt, ctx) and waits in state `at`.
CallNext(l, at) ==
  IF mode = "compose" THEN NextCompose(SetTop(l, at)) ELSE NextWith(SetTop(l, at))

\* ------------------------------------------------------------------ Init
\* rateLimitingMiddleware(maxRequests = 100, windowMs = 60000)
DefaultMaxRequests == 100
DefaultWindowMs == 60000

NoCall == [fn |-> "none"]
NoOutput == [c |-> "none"]

\* No request has arrived and the limiter's Map is empty.
InitPipeline ==
  /\ inv = [i \in Invocations |-> IdleLocals(0)]
  /\ running = None
  /\ requests = << >>
  /\ admitted = [c \in {} |-> << >>]
  /\ now = 0

InitCalls ==
  /\ input = NoCall
  /\ output = NoOutput
  /\ InitPipeline

Init ==
  /\ middlewares \in Chains
  /\ \/ mode = "compose" /\ handler = None
     \/ mode = "with" /\ handler \in HandlerKinds
  /\ maxRequests = DefaultMaxRequests
  /\ windowMs = DefaultWindowMs
  /\ self = "MiddlewareHelper"
  /\ InitCalls

\* --------------------------------------------------------------- actions
AtStart(i) ==
  /\ running = i
  /\ inv[i].pc = "running"
  /\ inv[i].stack # << >>
  /\ Top(inv[i]).at = "start"

Returned(i, at) ==
  /\ running = i
  /\ inv[i].pc = "running"
  /\ inv[i].stack # << >>
  /\ Top(inv[i]).at = at
  /\ inv[i].ret.c # "none"

\* The invocations are interchangeable: a new call takes the first free one.
FreeSlot(i) ==
  /\ inv[i].pc = "idle"
  /\ \A j \in Invocations : inv[j].pc = "idle" => ~(j = "i1" /\ i = "i2")

Set(i, l) ==
  /\ inv' = [inv EXCEPT ![i] = l]
  /\ UNCHANGED <<wiring, limiter, boundary>>

\* The caller invokes the built handler.  composeMiddleware: `let index = 0;
\* return next(event, context)`.  withMiddleware: the async function starts
\* and runs to its loop.
Request(i, m, ip) ==
  /\ running = None
  /\ FreeSlot(i)
  /\ \A j \in Invocations : inv[j].pc # "done"
  /\ LET l0 == [IdleLocals(InvokeIndex(inv[i].index))
                  EXCEPT !.pc = "running", !.method = m, !.ip = ip]
     IN  Set(i, IF mode = "compose" THEN NextCompose(l0) ELSE l0)
  /\ running' = i

Invoke(i) == \E m \in Methods : Request(i, m, NoIp)

PassStep(i) ==
  /\ AtStart(i) /\ TopKind(inv[i]) = "pass"
  /\ Set(i, CallNext(inv[i], "tail"))
  /\ UNCHANGED running

RespondStep(i) ==
  /\ AtStart(i) /\ TopKind(inv[i]) = "respond"
  /\ Set(i, Pop([inv[i] EXCEPT !.atHandler = inv[i].event],
                RetResponse(200, Top(inv[i]).k, "", {}, "data")))
  /\ UNCHANGED running

VoidStep(i) ==
  /\ AtStart(i) /\ TopKind(inv[i]) = "void"
  /\ Set(i, Pop(inv[i], RetUndefined))
  /\ UNCHANGED running

ThrowStep(i) ==
  /\ AtStart(i) /\ TopKind(inv[i]) = "throw"
  /\ Set(i, Pop(inv[i], Thrown("StepError", Top(inv[i]).k)))
  /\ UNCHANGED running

RejectStep(i) ==
  /\ AtStart(i) /\ TopKind(inv[i]) = "reject"
  /\ Set(i, Pop(inv[i], RetRejected("StepError", Top(inv[i]).k)))
  /\ UNCHANGED running

\* A rejected promise that nobody returns or awaits.
Dropped(l) == IF l.ret.t = "rejected" THEN {[err |-> l.ret.err, by |-> l.ret.by]} ELSE {}

TwiceStep(i) ==
  /\ UNCHANGED running
  /\ \/ /\ AtStart(i) /\ TopKind(inv[i]) = "twice"
        /\ Set(i, CallNext(inv[i], "first"))
     \/ /\ Returned(i, "first") /\ inv[i].ret.c = "throw"
        /\ Set(i, Pop(inv[i], inv[i].ret))
     \/ /\ Returned(i, "first") /\ inv[i].ret.c = "return"
        /\ Set(i, CallNext([inv[i] EXCEPT !.unhandled = @ \cup Dropped(inv[i])], "tail"))

\* `return next(event, context)`: whatever next returned or threw is the
\* step's own completion.
TailReturn(i) ==
  /\ Returned(i, "tail")
  /\ Set(i, Pop(inv[i], inv[i].ret))
  /\ UNCHANGED running

\* errorHandlingMiddleware: try { return next(event, context) }
\* catch (error) { return errorHandler(error, context) }
ErrorHandlingStep(i) ==
  /\ UNCHANGED running
  /\ \/ /\ AtStart(i) /\ TopKind(inv[i]) = "errh"
        /\ Set(i, CallNext(inv[i], "try"))
     \/ /\ Returned(i, "try") /\ inv[i].ret.c = "throw"
        /\ Set(i, Pop(inv[i], RetResponse(500, Top(inv[i]).k, inv[i].ret.err,
                                          DEFAULT_CORS_HEADERS, "error")))
     \/ /\ Returned(i, "try") /\ inv[i].ret.c = "return"
        /\ Set(i, Pop(inv[i], inv[i].ret))

\* The response of corsMiddleware to an OPTIONS request.
PreflightResponse(k) ==
  RetResponse(200, k, "", DEFAULT_CORS_HEADERS \cup {"Access-Control-Max-Age"}, "")

\* corsMiddleware
CorsStep(i) ==
  /\ UNCHANGED running
  /\ AtStart(i) /\ TopKind(inv[i]) \in {"cors", "corsBound"}
  /\ \/ /\ inv[i].method = "OPTIONS"
        /\ ThisOf(TopKind(inv[i])) = "MiddlewareHelper"
        /\ Set(i, Pop(inv[i], PreflightResponse(Top(inv[i]).k)))
     \/ /\ inv[i].method = "OPTIONS"
        /\ ThisOf(TopKind(inv[i])) = "undefined"
        /\ Set(i, Pop(inv[i], Thrown("TypeError", Top(inv[i]).k)))
     \/ /\ inv[i].method # "OPTIONS"
        /\ Set(i, CallNext(inv[i], "tail"))

\* composeMiddleware: the composed function returns what its call of next
\* returned, or throws what it threw.
ComposeReturn(i) ==
  /\ running = i /\ mode = "compose"
  /\ inv[i].pc = "running" /\ inv[i].stack = << >> /\ inv[i].ret.c # "none"
  /\ Set(i, [inv[i] EXCEPT !.pc = "done", !.result = inv[i].ret, !.ret = NoComp])
  /\ running' = None

\* withMiddleware: the loop over the steps, then the call of the handler.
WithLoop(i) ==
  /\ running = i /\ mode = "with"
  /\ inv[i].pc = "running" /\ inv[i].stack = << >>
  /\ LET l == inv[i] IN
     \/ \* a step threw: the async function's promise is rejected
        /\ l.ret.c = "throw"
        /\ Set(i, [l EXCEPT !.pc = "done", !.result = l.ret, !.ret = NoComp])
        /\ running' = None
     \/ \* if (result && result.statusCode) return result
        /\ IsResponse(l.ret)
        /\ Set(i, [l EXCEPT !.pc = "done", !.result = l.ret, !.ret = NoComp])
        /\ running' = None
     \/ \* the next step of the loop
        /\ l.ret.c # "throw" /\ ~IsResponse(l.ret)
        /\ l.index < Len(middlewares)
        /\ Set(i, [l EXCEPT !.stack = <<Frame(l.index)>>,
                            !.index = @ + 1,
                            !.ret = NoComp,
                            !.calls = Append(@, l.index),
                            !.unhandled = @ \cup Dropped(l)])
        /\ UNCHANGED running
     \/ \* return await handler(currentEvent, currentContext)
        /\ l.ret.c # "throw" /\ ~IsResponse(l.ret)
        /\ l.index >= Len(middlewares)
        /\ LET l1 == [l EXCEPT !.hruns = @ + 1, !.ret = NoComp,
                               !.atHandler = l.event,
                               !.unhandled = @ \cup Dropped(l)]
           IN  IF handler = "throw"
               THEN /\ Set(i, [l1 EXCEPT !.pc = "done",
                                         !.result = Thrown("HandlerError", HandlerPos)])
                    /\ running' = None
               ELSE /\ Set(i, [l1 EXCEPT !.pc = "awaiting"])
                    /\ running' = None

\* The awaited handler promise settles and the async function resumes.
HandlerSettles(i) ==
  /\ running = None
  /\ inv[i].pc = "awaiting"
  /\ Set(i, [inv[i] EXCEPT
               !.pc = "done",
               !.result = IF handler = "ok"
                          THEN RetResponse(200, HandlerPos, "", {}, "data")
                          ELSE Thrown("HandlerError", HandlerPos)])
  /\ UNCHANGED running

\* The caller has the result; the invocation's closure is garbage.
Release(i) ==
  /\ inv[i].pc = "done"
  /\ Set(i, IdleLocals(inv[i].index))
  /\ UNCHANGED running

\* ------------------------------------------------- rateLimitingMiddleware
\* `event.requestContext?.identity?.sourceIp || 'unknown'`
ClientIdOfIp(ip) == ip
ClientId(ip) == IF ip = NoIp THEN "unknown" ELSE ip
Identities == {ClientId(ip) : ip \in SourceIps}

\* `.filter(time => time > windowStart)`
KeepRecentInclusive(list, windowStart) ==
  LET Recent(time) == time >= windowStart IN SelectSeq(list, Recent)
KeepRecent(list, windowStart) ==
  LET Recent(time) == time > windowStart IN SelectSeq(list, Recent)

\* `requests.get(clientId) || []`
Get(map, clientId) == IF clientId \in DOMAIN map THEN map[clientId] ELSE << >>
\* `requests.set(clientId, list)`
Put(map, clientId, list) ==
  [c \in DOMAIN map \cup {clientId} |-> IF c = clientId THEN list ELSE map[c]]

\* Where a running function gives the thread away before it has returned:
\* the file has one await, that of the handler in withMiddleware; the
\* function the limiter returns is not async.
YieldsInLimiter(at) == at \in {"await handler", "limiter"}
YieldsAt(at) == at = "await handler"

AfterLimiterSegment(i) == IF YieldsAt("limiter") THEN None ELSE i

AtRate(i, at) ==
  /\ inv[i].pc = "running"
  /\ running = i \/ running = None
  /\ inv[i].stack # << >>
  /\ TopKind(inv[i]) = "rate"
  /\ Top(inv[i]).at = at

SetAt(l, at) == [l EXCEPT !.stack[Len(l.stack)].at = at]

SetRl(i, l) ==
  /\ inv' = [inv EXCEPT ![i] = l]
  /\ UNCHANGED <<wiring, boundary>>

\* const clientId = ...; const now = Date.now(); const windowStart = ...
RlEnter(i) ==
  /\ AtRate(i, "start")
  /\ SetRl(i, [SetAt(inv[i], "prune") EXCEPT
                 !.rl = [clientId |-> ClientId(inv[i].ip), now |-> now,
                         list |-> << >>],
                 !.room = IF Len(Get(admitted, ClientId(inv[i].ip))) < maxRequests
                          THEN "room" ELSE "full"])
  /\ running' = AfterLimiterSegment(i)
  /\ UNCHANGED limiter

\* if (requests.has(clientId)) requests.set(clientId, <the recent ones>)
RlPrune(i) ==
  /\ AtRate(i, "prune")
  /\ LET c == inv[i].rl.clientId IN
     requests' = IF c \in DOMAIN requests
                 THEN Put(requests, c, KeepRecent(requests[c], inv[i].rl.now - windowMs))
                 ELSE requests
  /\ SetRl(i, SetAt(inv[i], "check"))
  /\ running' = AfterLimiterSegment(i)
  /\ UNCHANGED <<now, admitted>>

\* The limiter's response to a request over the limit.
TooManyRequests(k) ==
  RetResponse(429, k, "", DEFAULT_CORS_HEADERS \cup {"Retry-After"}, "error")

\* const clientRequests = requests.get(clientId) || [];
\* if (clientRequests.length >= maxRequests) return { statusCode: 429, ... }
RlCheck(i) ==
  /\ AtRate(i, "check")
  /\ UNCHANGED limiter
  /\ LET l == inv[i]
         list == Get(requests, l.rl.clientId)
     IN
     \/ /\ Len(list) >= maxRequests /\ self = "MiddlewareHelper"
        /\ SetRl(i, [Pop(l, TooManyRequests(Top(l).k)) EXCEPT !.rl = NoRl])
        /\ running' = i
     \/ /\ Len(list) >= maxRequests /\ self = "undefined"
        /\ SetRl(i, [Pop(l, Thrown("TypeError", Top(l).k)) EXCEPT !.rl = NoRl])
        /\ running' = i
     \/ /\ Len(list) < maxRequests
        /\ SetRl(i, [SetAt(l, "record") EXCEPT !.rl.list = list])
        /\ running' = AfterLimiterSegment(i)

\* clientRequests.push(now); requests.set(clientId, clientRequests);
\* return next(event, context)
RlRecord(i) ==
  /\ AtRate(i, "record")
  /\ LET l == inv[i]
         c == l.rl.clientId
     IN  /\ requests' = Put(requests, c, Append(l.rl.list, l.rl.now))
         /\ admitted' = IF l.rl.now > now - windowMs
                         THEN Put(admitted, c, Append(Get(admitted, c), l.rl.now))
                         ELSE admitted
         /\ SetRl(i, [CallNext(l, "tail") EXCEPT !.rl = NoRl])
  /\ running' = i
  /\ UNCHANGED now

\* Time passes between two runs of the event loop.
Tick ==
  /\ running = None
  /\ now < MaxTime
  /\ now' = now + 1
  /\ admitted' = [c \in DOMAIN admitted |-> KeepRecent(admitted[c], now + 1 - windowMs)]
  /\ UNCHANGED <<wiring, inv, running, requests, boundary>>

InvokeFrom(i) == \E ip \in SourceIps : Request(i, "GET", ip)

\* The limiter in front of a step that answers (composeMiddleware) or of
\* the handler (withMiddleware).
RateInit ==
  /\ \/ mode = "compose" /\ middlewares = <<"rate", "respond">> /\ handler = None
     \/ mode = "with" /\ middlewares = <<"rate">> /\ handler = "ok"
  /\ maxRequests \in 1..MaxRequests
  /\ windowMs \in 1..MaxWindow
  /\ self \in {"MiddlewareHelper", "undefined"}
  /\ InitCalls

RateNext ==
  \/ Tick
  \/ \E i \in Invocations :
       \/ InvokeFrom(i)
       \/ RlEnter(i)
       \/ RlPrune(i)
       \/ RlCheck(i)
       \/ RlRecord(i)
       \/ RespondStep(i)
       \/ TailReturn(i)
       \/ ComposeReturn(i)
       \/ WithLoop(i)
       \/ HandlerSettles(i)
       \/ Release(i)

RateSpec == RateInit /\ [][RateNext]_vars

Next ==
  \E i \in Invocations :
    \/ Invoke(i)
    \/ PassStep(i)
    \/ RespondStep(i)
    \/ VoidStep(i)
    \/ ThrowStep(i)
    \/ RejectStep(i)
    \/ TwiceStep(i)
    \/ TailReturn(i)
    \/ ErrorHandlingStep(i)
    \/ CorsStep(i)
    \/ ComposeReturn(i)
    \/ WithLoop(i)
    \/ HandlerSettles(i)
    \/ Release(i)

Spec == Init /\ [][Next]_vars

\* ------------------------------------------- the library's request steps
\* The raw bodies of the requests, and what JSON.parse makes of them.
MalformedBody == "{invalid"
EmptyObjectBody == "{}"
EmailBody == "{\"email\":\"a@b.com\"}"
Bodies == {Undefined, MalformedBody, EmptyObjectBody, EmailBody}

EmptyObject == "object()"
EmailObject == "object(email: a@b.com)"
SyntaxError == "SyntaxError"

\* JSON.parse(event.body)
JSONParse(body) ==
  CASE body = EmailBody -> [ok |-> TRUE, value |-> EmailObject]
    [] body = EmptyObjectBody -> [ok |-> TRUE, value |-> EmptyObject]
    [] OTHER -> [ok |-> FALSE, value |-> SyntaxError]

\* The Authorization headers of the requests.
GoodToken == "Bearer good"
BadToken == "Bearer bad"
AuthHeaders == {Undefined, GoodToken, BadToken}

Events ==
  {[NoEvent EXCEPT !.body = b, !.authorization = a,
                   !.pathParameters = pp, !.queryStringParameters = qp] :
     b \in Bodies, a \in AuthHeaders,
     pp \in [Params -> {"good", "bad"}], qp \in [Params -> {"good", "bad"}]}

\* A value as `if (value)` sees it.
Truthy(v) == v \notin {Undefined, ""}

\* The validators a caller of the library supplies: one that requires an
\* email in the body, one per declared parameter, and one for the token.
Validator(data, pathParameters, queryStringParameters) ==
  IF data = EmailObject
  THEN [isValid |-> TRUE, errors |-> {}, value |-> EmailObject]
  ELSE [isValid |-> FALSE, errors |-> {<<"0", "email: Email is required">>},
        value |-> Undefined]

\* Two more validators for the same step, which check one path parameter
\* each and return it as the validated data.
PathValidator(param, data, pathParameters, queryStringParameters) ==
  IF pathParameters[param] = "good"
  THEN [isValid |-> TRUE, errors |-> {}, value |-> param]
  ELSE [isValid |-> FALSE, errors |-> {<<"0", "path parameter is not valid">>},
        value |-> Undefined]

\* The validator handed to validationMiddleware for a step of the kind.
ValidatorOf(kind, data, pathParameters, queryStringParameters) ==
  CASE kind = "validate" -> Validator(data, pathParameters, queryStringParameters)
    [] kind = "validateId" ->
         PathValidator("id", data, pathParameters, queryStringParameters)
    [] OTHER -> PathValidator("page", data, pathParameters, queryStringParameters)

ParamValidator(value) ==
  IF value = "good"
  THEN [isValid |-> TRUE, errors |-> << >>, value |-> "good"]
  ELSE [isValid |-> FALSE, errors |-> <<"is not valid">>, value |-> Undefined]

AuthValidator(authHeader) ==
  IF authHeader = GoodToken
  THEN [isValid |-> TRUE, user |-> "alice"]
  ELSE [isValid |-> FALSE, user |-> Undefined]

\* Object.entries(paramValidators): the declared parameters in their order.
Declared == <<"id", "page">>

\* A 4xx response of a step: { statusCode, headers: <receiver>.DEFAULT_CORS_HEADERS,
\* body: JSON.stringify({ error: { message, code, details } }) }.  Reading
\* DEFAULT_CORS_HEADERS of an undefined receiver throws a TypeError.
StepError(receiver, k, status, code, details) ==
  IF receiver = "MiddlewareHelper"
  THEN [RetResponse(status, k, code, DEFAULT_CORS_HEADERS, "error")
          EXCEPT !.details = details]
  ELSE Thrown("TypeError", k)

SetEvent(l, field, value) == [l EXCEPT !.event[field] = value]

\* jsonBodyParser
JsonBodyParserStep(i) ==
  /\ UNCHANGED running
  /\ AtStart(i) /\ TopKind(inv[i]) \in {"json", "jsonBound"}
  /\ LET l == inv[i]
         parsed == JSONParse(l.event.body)
     IN
     \/ /\ Truthy(l.event.body) /\ ~parsed.ok
        /\ Set(i, Pop(l, StepError(ThisOf(TopKind(l)), Top(l).k, 400,
                                   "INVALID_JSON", {})))
     \/ /\ Truthy(l.event.body) /\ parsed.ok
        /\ Set(i, CallNext(SetEvent(l, "parsedBody", parsed.value), "tail"))
     \/ /\ ~Truthy(l.event.body)
        /\ Set(i, CallNext(l, "tail"))

\* The function validationMiddleware(validator) returns.
ValidationStep(i) ==
  /\ UNCHANGED running
  /\ AtStart(i) /\ TopKind(inv[i]) \in {"validate", "validateId", "validatePage"}
  /\ LET l == inv[i]
         data == IF Truthy(l.event.parsedBody) THEN l.event.parsedBody
                 ELSE l.event.body
         validation == ValidatorOf(TopKind(l), data, l.event.pathParameters,
                                   l.event.queryStringParameters)
     IN
     \/ /\ ~validation.isValid
        /\ Set(i, Pop(l, StepError(self, Top(l).k, 400, "VALIDATION_ERROR",
                                   validation.errors)))
     \/ /\ validation.isValid
        /\ Set(i, CallNext(SetEvent(l, "validatedData", validation.value), "tail"))

\* for (const [param, validator] of Object.entries(validators)): the loop
\* of the two parameter steps from entry `from` on.
RECURSIVE RunValidators(_, _, _)
RunValidators(values, from, acc) ==
  IF from > Len(Declared) THEN acc
  ELSE LET param == Declared[from]
           validation == ParamValidator(values[param])
           acc1 == [acc EXCEPT !.checked = Append(@, param)]
       IN  RunValidators(values, from + 1,
             IF ~validation.isValid
             THEN [acc1 EXCEPT !.errors =
                     @ \cup {<<param, validation.errors[e]>> :
                               e \in DOMAIN validation.errors}]
             ELSE [acc1 EXCEPT !.validated = @ \cup {<<param, validation.value>>}])

NoneChecked == [errors |-> {}, validated |-> {}, checked |-> << >>]

\* The functions pathParameterValidation(paramValidators) and
\* queryParameterValidation(queryValidators) return.
ParameterValidationStep(i) ==
  /\ UNCHANGED running
  /\ AtStart(i) /\ TopKind(inv[i]) \in {"pathv", "queryv"}
  /\ LET l == inv[i]
         query == TopKind(l) = "queryv"
         values == IF query THEN l.event.queryStringParameters
                   ELSE l.event.pathParameters
         run == RunValidators(values, 1, NoneChecked)
         l1 == [l EXCEPT !.checked = run.checked]
     IN
     \/ /\ run.errors # {}
        /\ Set(i, Pop(l1, StepError(self, Top(l).k, 400, "VALIDATION_ERROR",
                                    run.errors)))
     \/ /\ run.errors = {} /\ query
        /\ Set(i, CallNext(SetEvent(l1, "validatedQuery", run.validated), "tail"))
     \/ /\ run.errors = {} /\ ~query
        /\ Set(i, CallNext(l1, "tail"))

\* The function authenticationMiddleware(authValidator) returns.
AuthenticationStep(i) ==
  /\ UNCHANGED running
  /\ AtStart(i) /\ TopKind(inv[i]) = "auth"
  /\ LET l == inv[i]
         authHeader == l.event.authorization
         validation == AuthValidator(authHeader)
     IN
     \/ /\ ~Truthy(authHeader)
        /\ Set(i, Pop(l, StepError(self, Top(l).k, 401, "UNAUTHORIZED", {})))
     \/ /\ Truthy(authHeader) /\ ~validation.isValid
        /\ Set(i, Pop(l, StepError(self, Top(l).k, 401, "UNAUTHORIZED", {})))
     \/ /\ Truthy(authHeader) /\ validation.isValid
        /\ Set(i, CallNext(SetEvent(l, "user", validation.user), "tail"))

\* One call of the logger.
LogEntry(k, level, message, time, status, err, down) ==
  [k |-> k, level |-> level, message |-> message, time |-> time,
   status |-> status, err |-> err, down |-> down]

\* const startTime = Date.now() of the running call of step k.
StartTime(l, k) ==
  LET incoming == SelectSeq(l.log, LAMBDA e : e.k = k /\ e.message = "Incoming request")
  IN  incoming[Len(incoming)].time

\* The function requestLoggingMiddleware(logger) returns.
RequestLoggingStep(i) ==
  /\ UNCHANGED running
  /\ LET l == inv[i] IN
     \/ \* logger.info('Incoming request', ...); const result = next(event, context)
        /\ AtStart(i) /\ TopKind(l) = "log"
        /\ Set(i, CallNext([l EXCEPT !.log = Append(@,
                     LogEntry(Top(l).k, "info", "Incoming request", now, 0, "", NoComp))],
                   "logged"))
     \/ \* next threw: catch (error) { logger.error(...); throw error }
        /\ Returned(i, "logged") /\ l.ret.c = "throw"
        /\ Set(i, Pop([l EXCEPT !.log = Append(@,
                     LogEntry(Top(l).k, "error", "Request failed",
                              now - StartTime(l, Top(l).k), 0, l.ret.err, l.ret))],
                   l.ret))
     \/ \* next returned null or undefined: reading result.statusCode throws
        \* inside the try, and the catch logs and rethrows that TypeError
        /\ Returned(i, "logged") /\ l.ret.c = "return"
        /\ l.ret.t \in {"null", "undefined"}
        /\ Set(i, Pop([l EXCEPT !.log = Append(@,
                     LogEntry(Top(l).k, "error", "Request failed",
                              now - StartTime(l, Top(l).k), 0, "TypeError", l.ret))],
                   Thrown("TypeError", Top(l).k)))
     \/ \* next returned an object (a response, or a promise, whose statusCode
        \* is undefined): logger.info('Request completed', ...); return result
        /\ Returned(i, "logged") /\ l.ret.c = "return"
        /\ l.ret.t \notin {"null", "undefined"}
        /\ Set(i, Pop([l EXCEPT !.log = Append(@,
                     LogEntry(Top(l).k, "info", "Request completed",
                              now - StartTime(l, Top(l).k), l.ret.status, "", l.ret))],
                   l.ret))

\* A request with event ev arrives while no other one is in flight.
Receive(i, ev) ==
  /\ running = None
  /\ FreeSlot(i)
  /\ \A j \in Invocations : inv[j].pc = "idle"
  /\ LET l0 == [IdleLocals(InvokeIndex(inv[i].index))
                  EXCEPT !.pc = "running", !.method = "GET", !.event = ev]
     IN  Set(i, IF mode = "compose" THEN NextCompose(l0) ELSE l0)
  /\ running' = i

Serve(i) == \E ev \in Events : Receive(i, ev)

\* The chains of library steps, in front of the handler (withMiddleware) or
\* of a last step that answers (composeMiddleware).
MaxLibSteps == 2
LibKinds ==
  {"json", "jsonBound", "validate", "validateId", "validatePage", "pathv", "queryv",
   "auth", "log"}
LibChains == SeqsUpTo(LibKinds \cup {"throw", "reject"}, MaxLibSteps)

StepsInit ==
  /\ \/ /\ mode = "compose" /\ handler = None
        /\ \E chain \in LibChains : middlewares = Append(chain, "respond")
     \/ /\ mode = "with" /\ handler = "ok"
        /\ middlewares \in LibChains
  /\ maxRequests = DefaultMaxRequests
  /\ windowMs = DefaultWindowMs
  /\ self \in {"MiddlewareHelper", "undefined"}
  /\ InitCalls

StepsNext ==
  \E i \in Invocations :
    \/ Serve(i)
    \/ JsonBodyParserStep(i)
    \/ ValidationStep(i)
    \/ ParameterValidationStep(i)
    \/ AuthenticationStep(i)
    \/ RequestLoggingStep(i)
    \/ RespondStep(i)
    \/ ThrowStep(i)
    \/ RejectStep(i)
    \/ TailReturn(i)
    \/ ComposeReturn(i)
    \/ WithLoop(i)
    \/ HandlerSettles(i)
    \/ Release(i)

StepsSpec == StepsInit /\ [][StepsNext]_vars

\* ------------------------------------------------ ErrorHandler.handleError
\* The names handleError switches on, a foreign one, and an error without.
DomainNames ==
  {"ValidationError", "NotFoundError", "ConflictError", "UnauthorizedError",
   "ForbiddenError", "BusinessLogicError"}
DynamoNames ==
  {"ConditionalCheckFailedException", "ResourceNotFoundException",
   "ProvisionedThroughputExceededException", "ThrottlingException",
   "ItemCollectionSizeLimitExceededException", "ValidationException",
   "AccessDeniedException", "InternalServerError", "ServiceUnavailableException"}
ErrorNames ==
  DomainNames \cup DynamoNames \cup {"SyntaxError", "TimeoutError", "RangeError", Undefined}

JsonMessage == "Unexpected token i in JSON at position 1"
RegExpMessage == "Invalid regular expression: missing /"
Messages == {Undefined, "", JsonMessage, RegExpMessage}

\* error.message.includes('JSON')
IncludesJSON(message) == message = JsonMessage

\* An error value: null/undefined, or an object with these properties.
StackTrace == "at handler (index.js:1:1)"
ClassName == "ServiceException"
NullError ==
  [nil |-> TRUE, name |-> Undefined, message |-> Undefined, details |-> {}]
ErrorValues ==
  {NullError} \cup
  {[nil |-> FALSE, name |-> n, message |-> m, details |-> d] :
     n \in ErrorNames, m \in Messages, d \in {{}, {<<"email", "taken">>}}}

\* The context of the call: left out, null, or an object.
NoContext == [kind |-> "undefined", correlationId |-> Undefined, awsRequestId |-> Undefined]
Contexts ==
  {NoContext, [NoContext EXCEPT !.kind = "null"]} \cup
  {[kind |-> "object", correlationId |-> c, awsRequestId |-> a] :
     c \in {Undefined, "", "corr-1"}, a \in {Undefined, "aws-1"}}

NodeEnvs == {Undefined, "production", "development"}

\* generateRequestId(): `req_${Date.now()}_${Math.random()...}`
GeneratedIds == {"req_1_a", "req_2_b"}

\* What a call returns or throws.
ErrorRecord(message, statusCode, code, details, requestId) ==
  [c |-> "return", t |-> "record", statusCode |-> statusCode, code |-> code,
   message |-> message, details |-> details,
   requestId |-> requestId, correlationId |-> requestId, headers |-> {}, err |-> ""]
ReturnsUndefined ==
  [c |-> "return", t |-> "undefined", statusCode |-> 0, code |-> "",
   message |-> "", details |-> {}, requestId |-> "", correlationId |-> "",
   headers |-> {}, err |-> ""]
Throws(err) == [ReturnsUndefined EXCEPT !.c = "throw", !.t = "error", !.err = err]

\* a || b
Or(a, b) == IF Truthy(a) THEN a ELSE b

\* createErrorResponse(message, statusCode, code, details, correlationId)
CreateErrorResponse(message, statusCode, code, details, correlationId, generated) ==
  ErrorRecord(message, statusCode, code, details, Or(correlationId, generated))

\* context.correlationId || context.awsRequestId || this.generateRequestId()
CorrelationIdAwsFirst(context, generated) ==
  Or(context.awsRequestId, Or(context.correlationId, generated))
CorrelationId(context, generated) ==
  Or(context.correlationId, Or(context.awsRequestId, generated))

\* handleError(error, context = {}) with `this` = receiver.
HandleError(receiver, error, context, nodeEnv, generated) ==
  LET correlationId == CorrelationId(context, generated)
      name == error.name
      Create(message, statusCode, code, details) ==
        IF receiver = "undefined" THEN Throws("TypeError")
        ELSE CreateErrorResponse(message, statusCode, code, details,
                                 correlationId, generated)
  IN
  IF context.kind = "null" THEN Throws("TypeError")
  ELSE IF /\ ~Truthy(context.correlationId) /\ ~Truthy(context.awsRequestId)
          /\ receiver = "undefined"
  THEN Throws("TypeError")
  ELSE IF error.nil THEN Throws("TypeError")
  ELSE
  CASE name = "ValidationError" ->
         Create(error.message, 400, "VALIDATION_ERROR", error.details)
    [] name = "NotFoundError" ->
         Create("Resource with ID 'unknown' not found", 404, "NOT_FOUND",
                {<<"resource", Undefined>>, <<"id", Undefined>>})
    [] name = "ConflictError" ->
         Create(error.message, 409, "CONFLICT", error.details)
    [] name = "UnauthorizedError" ->
         Create(Or(error.message, "Unauthorized"), 401, "UNAUTHORIZED", {})
    [] name = "ForbiddenError" ->
         Create(Or(error.message, "Forbidden"), 403, "FORBIDDEN", {})
    [] name = "BusinessLogicError" ->
         Create(error.message, 400, "BUSINESS_LOGIC_ERROR", error.details)
    [] name = "ConditionalCheckFailedException" ->
         Create("Resource has been modified by another request", 409, "CONFLICT", {})
    [] name = "ResourceNotFoundException" ->
         Create("Resource not found", 404, "NOT_FOUND", {})
    [] name \in {"ProvisionedThroughputExceededException", "ThrottlingException"} ->
         Create("Service temporarily unavailable. Please try again later.",
                503, "SERVICE_UNAVAILABLE", {})
    [] name = "ItemCollectionSizeLimitExceededException" ->
         Create("Request payload too large", 413, "REQUEST_TOO_LARGE", {})
    [] name = "ValidationException" ->
         Create("Invalid request parameters", 400, "VALIDATION_ERROR",
                {<<"dynamoDbError", error.message>>})
    [] name = "AccessDeniedException" ->
         Create("Access denied to requested resource", 403, "FORBIDDEN", {})
    [] name \in {"InternalServerError", "ServiceUnavailableException"} ->
         Create("Service temporarily unavailable", 503, "SERVICE_UNAVAILABLE", {})
    [] name = "SyntaxError" ->
         IF error.message = Undefined THEN Throws("TypeError")
         ELSE IF IncludesJSON(error.message)
         THEN Create("Invalid JSON in request body", 400, "VALIDATION_ERROR",
                     {<<"parseError", error.message>>})
         ELSE ReturnsUndefined
    [] name = "TimeoutError" ->
         Create("Request timeout", 408, "REQUEST_TIMEOUT", {})
    [] OTHER ->
         Create("Internal server error", 500, "INTERNAL_SERVER_ERROR",
                IF nodeEnv = "development"
                THEN {<<"stack", StackTrace>>, <<"errorType", ClassName>>,
                      <<"errorCode", Undefined>>}
                ELSE {})

\* The calls: ErrorHandler.handleError(error, context), the module's export
\* classifyError(error, context), and a handler wrapped by wrapHandler.
ErrorCalls ==
  {[fn |-> "handleError", receiver |-> "ErrorHandler", error |-> e,
    context |-> c, nodeEnv |-> n, raises |-> TRUE] :
     e \in ErrorValues, c \in Contexts, n \in NodeEnvs}
  \cup
  {[fn |-> "classifyError", receiver |-> "undefined", error |-> e,
    context |-> c, nodeEnv |-> n, raises |-> TRUE] :
     e \in ErrorValues, c \in Contexts, n \in NodeEnvs}
  \cup
  {[fn |-> "wrapHandler", receiver |-> "ErrorHandler", error |-> e,
    context |-> c, nodeEnv |-> n, raises |-> r] :
     e \in ErrorValues, c \in {x \in Contexts : x.kind = "object"},
     n \in NodeEnvs, r \in BOOLEAN}

Pending == output.c = "none"

BoundaryStep(out) ==
  /\ output' = out
  /\ UNCHANGED <<wiring, limiter, inv, running, input>>

\* handleError / classifyError is called.
HandleErrorCall ==
  /\ Pending /\ input.fn \in {"handleError", "classifyError"}
  /\ \E generated \in GeneratedIds :
       BoundaryStep(HandleError(input.receiver, input.error, input.context,
                                input.nodeEnv, generated))

\* wrapHandler(handler)(event, context):
\* try { return await handler(event, context) }
\* catch (error) { return this.handleError(error, context) }
HandlerResult == [ReturnsUndefined EXCEPT !.t = "response", !.statusCode = 200]
WrapHandlerCall ==
  /\ Pending /\ input.fn = "wrapHandler"
  /\ \/ /\ ~input.raises
        /\ BoundaryStep(HandlerResult)
     \/ /\ input.raises
        /\ \E generated \in GeneratedIds :
             BoundaryStep(HandleError(input.receiver, input.error, input.context,
                                      input.nodeEnv, generated))

MapperInit ==
  /\ mode = "with" /\ middlewares = << >> /\ handler = "ok"
  /\ maxRequests = DefaultMaxRequests
  /\ windowMs = DefaultWindowMs
  /\ self = "MiddlewareHelper"
  /\ InitPipeline
  /\ input \in ErrorCalls
  /\ output = NoOutput

MapperNext == HandleErrorCall \/ WrapHandlerCall

MapperSpec == MapperInit /\ [][MapperNext]_vars

\* ----------------------------------------------------------- ResponseHelper
\* DEFAULT_CORS_HEADERS with its values (the boolean true is written "true").
CorsValues ==
  ("Access-Control-Allow-Origin" :> "*") @@
  ("Access-Control-Allow-Credentials" :> "true") @@
  ("Access-Control-Allow-Headers" :>
     "Content-Type,X-Amz-Date,Authorization,X-Api-Key,X-Amz-Security-Token,X-Correlation-ID") @@
  ("Access-Control-Allow-Methods" :> "GET,POST,PUT,DELETE,OPTIONS")

NoHeaders == [h \in {} |-> ""]

\* { ...a, ...b }: the later spread wins.
Spread(a, b) == b @@ a

\* JSON.stringify(value); JSON.parse of the body gives .json back.
Stringify(value) == [present |-> TRUE, json |-> value]
NoBody == [present |-> FALSE, json |-> Undefined]

\* A parameter with a default value: << >> when the argument is left out.
Default(arg, value) == IF arg = << >> THEN value ELSE arg[1]

Response(statusCode, body, headers) ==
  [c |-> "return", t |-> "response", statusCode |-> statusCode,
   body |-> body, headers |-> headers, err |-> ""]

IdHeaders(requestId) ==
  ("X-Correlation-ID" :> requestId) @@ ("X-Request-ID" :> requestId)

\* success(data, statusCode = 200, correlationId = null, additionalHeaders = {})
Success(data, statusCode, correlationId, additionalHeaders, generated) ==
  LET requestId == Or(correlationId, generated) IN
  Response(Default(statusCode, 200), Stringify(data),
           Spread(Spread(Spread("Content-Type" :> "application/json", CorsValues),
                         IdHeaders(requestId)),
                  additionalHeaders))

\* error(message, statusCode = 500, code = null, details = null, correlationId = null)
ErrorFreshCorrelation(message, statusCode, code, details, correlationId, generated) ==
  LET requestId == Or(correlationId, generated)
      errorResponse ==
        [error |-> [message |-> message,
                    code |-> IF Truthy(code) THEN code ELSE Undefined,
                    details |-> details],
         requestId |-> requestId, correlationId |-> generated, timestamp |-> now]
  IN
  Response(Default(statusCode, 500), Stringify(errorResponse),
           Spread(Spread("Content-Type" :> "application/json", CorsValues),
                  IdHeaders(requestId)))
Error(message, statusCode, code, details, correlationId, generated) ==
  LET requestId == Or(correlationId, generated)
      errorResponse ==
        [error |-> [message |-> message,
                    code |-> IF Truthy(code) THEN code ELSE Undefined,
                    details |-> details],
         requestId |-> requestId, correlationId |-> requestId, timestamp |-> now]
  IN
  Response(Default(statusCode, 500), Stringify(errorResponse),
           Spread(Spread("Content-Type" :> "application/json", CorsValues),
                  IdHeaders(requestId)))

\* noContent(correlationId = null)
NoContent(correlationId, generated) ==
  Response(204, NoBody, Spread(CorsValues, IdHeaders(Or(correlationId, generated))))

\* paginated(items, pagination = {}, correlationId = null)
Paginated(items, pagination, correlationId, generated) ==
  Success([items |-> items,
           pagination |-> Spread("count" :> Len(items), pagination)],
          << >>, correlationId, NoHeaders, generated)

\* The responses of the steps that end a chain, as the caller receives
\* them: the header names of the step's response with their values.
StepHeaderValues ==
  CorsValues @@ ("Access-Control-Max-Age" :> "86400") @@ ("Retry-After" :> "60")
Received(r) ==
  IF r.c = "throw" THEN Throws(r.err)
  ELSE Response(r.status, Stringify([error |-> [code |-> r.err, details |-> r.details]]),
                [h \in r.headers |-> StepHeaderValues[h]])

ShortCircuitOf(step, receiver) ==
  CASE step = "cors" ->
         IF receiver = "MiddlewareHelper" THEN PreflightResponse(0)
         ELSE Thrown("TypeError", 0)
    [] step = "json" -> StepError(receiver, 0, 400, "INVALID_JSON", {})
    [] step = "validate" ->
         StepError(receiver, 0, 400, "VALIDATION_ERROR",
                   Validator(EmptyObject, NoEvent.pathParameters,
                             NoEvent.queryStringParameters).errors)
    [] step = "auth" -> StepError(receiver, 0, 401, "UNAUTHORIZED", {})
    [] OTHER ->
         IF receiver = "MiddlewareHelper" THEN TooManyRequests(0)
         ELSE Thrown("TypeError", 0)

\* The arguments of the calls.
MaxItems == 2
CorrelationIds == {Undefined, "", "corr-1"}
ExtraHeaders ==
  {NoHeaders, "X-Custom" :> "1", "Content-Type" :> "text/plain",
   "X-Correlation-ID" :> "other"}
ItemLists == SeqsUpTo({"item"}, MaxItems)
Paginations == {[k \in {} |-> 0], "limit" :> 10, "count" :> 99}

ResponseCalls ==
  {[fn |-> "success", data |-> "data", statusCode |-> s, correlationId |-> c,
    additionalHeaders |-> h] :
     s \in {<< >>, <<201>>}, c \in CorrelationIds, h \in ExtraHeaders}
  \cup
  {[fn |-> "error", message |-> "Something failed", statusCode |-> s, code |-> k,
    details |-> d, correlationId |-> c] :
     s \in {<< >>, <<404>>}, k \in {Undefined, "NOT_FOUND"},
     d \in {{}, {<<"resource", "user">>}}, c \in CorrelationIds}
  \cup
  {[fn |-> "paginated", items |-> i, pagination |-> p, correlationId |-> c] :
     i \in ItemLists, p \in Paginations, c \in CorrelationIds}
  \cup
  {[fn |-> "noContent", correlationId |-> c] : c \in CorrelationIds}
  \cup
  {[fn |-> "step", step |-> s, receiver |-> r] :
     s \in {"cors", "json", "validate", "auth", "rate"},
     r \in {"MiddlewareHelper", "undefined"}}

SuccessCall ==
  /\ Pending /\ input.fn = "success"
  /\ \E generated \in GeneratedIds :
       BoundaryStep(Success(input.data, input.statusCode, input.correlationId,
                            input.additionalHeaders, generated))

ErrorCall ==
  /\ Pending /\ input.fn = "error"
  /\ \E generated \in GeneratedIds :
       BoundaryStep(Error(input.message, input.statusCode, input.code,
                          input.details, input.correlationId, generated))

PaginatedCall ==
  /\ Pending /\ input.fn = "paginated"
  /\ \E generated \in GeneratedIds :
       BoundaryStep(Paginated(input.items, input.pagination,
                              input.correlationId, generated))

NoContentCall ==
  /\ Pending /\ input.fn = "noContent"
  /\ \E generated \in GeneratedIds :
       BoundaryStep(NoContent(input.correlationId, generated))

\* A step ends the chain and its response goes to the caller.
ShortCircuitCall ==
  /\ Pending /\ input.fn = "step"
  /\ BoundaryStep(Received(ShortCircuitOf(input.step, input.receiver)))

ResponseInit ==
  /\ mode = "with" /\ middlewares = << >> /\ handler = "ok"
  /\ maxRequests = DefaultMaxRequests
  /\ windowMs = DefaultWindowMs
  /\ self = "MiddlewareHelper"
  /\ InitPipeline
  /\ input \in ResponseCalls
  /\ output = NoOutput

ResponseNext ==
  \/ SuccessCall
  \/ ErrorCall
  \/ PaginatedCall
  \/ NoContentCall
  \/ ShortCircuitCall

ResponseSpec == ResponseInit /\ [][ResponseNext]_vars

\* --------------------------------------------------------- ValidationHelper
\* JavaScript values.  A string is a sequence of blocks of characters; the
\* block "L" stands for 250 lower-case letters, every other block for the
\* one character it shows.  A number is n, or n plus a fraction strictly
\* between 0 and 1 when frac is TRUE.
Value(t, s, n, frac) == [t |-> t, s |-> s, n |-> n, frac |-> frac]
Null == Value("null", << >>, 0, FALSE)
Undef == Value("undefined", << >>, 0, FALSE)
Str(s) == Value("string", s, 0, FALSE)
Num(n) == Value("number", << >>, n, FALSE)
NumAndFraction(n) == Value("number", << >>, n, TRUE)
NaN == Value("NaN", << >>, 0, FALSE)
Bool(b) == Value("boolean", << >>, IF b THEN 1 ELSE 0, FALSE)
Arr(length) == Value("array", << >>, length, FALSE)
Obj == Value("object", << >>, 0, FALSE)
DateOf(time) == Value("date", << >>, time, FALSE)
InvalidDate == Value("date", << >>, 0, TRUE)

LongBlock == "L"
LongBlockLength == 250
\* The block "u" stands for the 36 characters of a lower-case UUID.
UuidBlock == "u"
UuidLength == 36
Spaces == {" "}
Digits == {"0", "1", "5"}
Lowers == {"a", "b", LongBlock}
Uppers == {"A"}

\* value.length
BlockLength(b) ==
  IF b = LongBlock THEN LongBlockLength ELSE IF b = UuidBlock THEN UuidLength ELSE 1
RECURSIVE Length(_)
Length(s) == IF s = << >> THEN 0 ELSE BlockLength(Head(s)) + Length(Tail(s))

\* value.trim()
RECURSIVE TrimStart(_)
TrimStart(s) ==
  IF s # << >> /\ Head(s) \in Spaces THEN TrimStart(Tail(s)) ELSE s
RECURSIVE TrimEnd(_)
TrimEnd(s) ==
  IF s # << >> /\ s[Len(s)] \in Spaces THEN TrimEnd(SubSeq(s, 1, Len(s) - 1)) ELSE s
Trim(s) == TrimEnd(TrimStart(s))

\* value.toLowerCase()
LowerOf(b) == IF b = "A" THEN "a" ELSE b
ToLowerCase(s) == [p \in DOMAIN s |-> LowerOf(s[p])]

\* !value
Falsy(v) ==
  \/ v.t \in {"null", "undefined", "NaN"}
  \/ v.t = "string" /\ v.s = << >>
  \/ v.t \in {"number", "boolean"} /\ v.n = 0 /\ ~v.frac

\* PATTERNS.EMAIL = /^[^\s@]+@[^\s@]+\.[^\s@]+$/
Plain(b) == b \notin Spaces /\ b # "@"
AllPlain(s) == s # << >> /\ \A p \in DOMAIN s : Plain(s[p])
TestEmail(s) ==
  \E at \in DOMAIN s :
    /\ s[at] = "@"
    /\ AllPlain(SubSeq(s, 1, at - 1))
    /\ \E dot \in (at + 1)..Len(s) :
         /\ s[dot] = "."
         /\ AllPlain(SubSeq(s, at + 1, dot - 1))
         /\ AllPlain(SubSeq(s, dot + 1, Len(s)))

\* PATTERNS.USERNAME = /^[a-zA-Z0-9]{3,30}$/
TestUsername(s) ==
  /\ \A p \in DOMAIN s : s[p] \in Lowers \cup Uppers \cup Digits
  /\ Length(s) >= 3 /\ Length(s) <= 30

\* PATTERNS.PHONE = /^\+?[\d\s\-\(\)]+$/
TestPhone(s) ==
  LET rest == IF s # << >> /\ Head(s) = "+" THEN Tail(s) ELSE s
  IN  rest # << >> /\ \A p \in DOMAIN rest : rest[p] \in Digits \cup Spaces \cup {"-", "(", ")"}

\* PATTERNS.UUID: no other string over the blocks has the UUID shape.
TestUuid(s) == s = <<UuidBlock>>

\* Number(value)
DigitValue(b) == CASE b = "0" -> 0 [] b = "1" -> 1 [] OTHER -> 5
AllDigits(s) == s # << >> /\ \A p \in DOMAIN s : s[p] \in Digits
RECURSIVE Decimal(_)
Decimal(s) ==
  IF s = << >> THEN 0
  ELSE 10 * Decimal(SubSeq(s, 1, Len(s) - 1)) + DigitValue(s[Len(s)])
StringToNumber(s) ==
  LET x == Trim(s) IN
  IF x = << >> THEN Num(0)
  ELSE IF AllDigits(x) THEN Num(Decimal(x))
  ELSE IF \E dot \in DOMAIN x :
            /\ x[dot] = "."
            /\ AllDigits(SubSeq(x, 1, dot - 1))
            /\ AllDigits(SubSeq(x, dot + 1, Len(x)))
  THEN LET dot == CHOOSE d \in DOMAIN x : x[d] = "."
           whole == Decimal(SubSeq(x, 1, dot - 1))
       IN  IF Decimal(SubSeq(x, dot + 1, Len(x))) = 0 THEN Num(whole)
           ELSE NumAndFraction(whole)
  ELSE NaN
ToNumber(v) ==
  CASE v.t \in {"number", "NaN"} -> v
    [] v.t = "string" -> StringToNumber(v.s)
    [] v.t = "boolean" -> Num(v.n)
    [] v.t = "null" -> Num(0)
    [] v.t = "array" -> IF v.n = 0 THEN Num(0) ELSE NaN
    [] v.t = "date" -> IF v.frac THEN NaN ELSE Num(v.n)
    [] OTHER -> NaN

\* num < min, num > max, Number.isInteger(num)
Below(num, min) == num.n < min
Above(num, max) == IF num.frac THEN num.n >= max ELSE num.n > max
IsInteger(num) == num.t = "number" /\ ~num.frac

\* `${min}`
NumText(n) ==
  CASE n = 0 -> "0" [] n = 1 -> "1" [] n = 2 -> "2" [] n = 3 -> "3"
    [] n = 5 -> "5" [] n = 100 -> "100" [] n = 1000 -> "1000"
    [] OTHER -> "9007199254740991"

\* createValidationResult(isValid, errors = [], value = null); fields holds
\* the properties of value when value is the object validateObject builds.
CreateValidationResult(isValid, errors, value) ==
  [c |-> "return", t |-> "result", isValid |-> isValid, errors |-> errors,
   value |-> value, fields |-> {}]
InvalidWithoutErrors(message) == CreateValidationResult(FALSE, << >>, Null)
Invalid(message) == CreateValidationResult(FALSE, <<message>>, Null)
Valid(value) == CreateValidationResult(TRUE, << >>, value)

\* The first lines of most validators:
\* if (!value) return required ? invalid(`${fieldName} is required`) : valid(null)
NotGiven(fieldName, required) ==
  IF required THEN Invalid(<<fieldName, " is required">>) ELSE Valid(Null)

\* validateEmail(email, required = true)
ValidateEmail(email, required) ==
  IF Falsy(email) THEN NotGiven("Email", required)
  ELSE IF email.t # "string" THEN Invalid(<<"Email", " must be a string">>)
  ELSE LET sanitized == ToLowerCase(Trim(email.s)) IN
       IF ~TestEmail(sanitized) THEN Invalid(<<"Invalid email format">>)
       ELSE IF Length(sanitized) > 254
       THEN Invalid(<<"Email", " is too long (max 254 characters)">>)
       ELSE Valid(Str(sanitized))

\* validateRequired(value, fieldName = 'Field')
ValidateRequired(value, fieldName) ==
  IF value.t \in {"null", "undefined"} \/ (value.t = "string" /\ value.s = << >>)
  THEN Invalid(<<fieldName, " is required">>)
  ELSE Valid(value)

\* validateStringLength(value, minLength, maxLength, fieldName, required)
ValidateStringLength(value, minLength, maxLength, fieldName, required) ==
  IF Falsy(value) THEN NotGiven(fieldName, required)
  ELSE IF value.t # "string" THEN Invalid(<<fieldName, " must be a string">>)
  ELSE LET sanitized == Trim(value.s) IN
       IF Length(sanitized) < minLength
       THEN Invalid(<<fieldName, " must be at least ", NumText(minLength),
                      " characters long">>)
       ELSE IF Length(sanitized) > maxLength
       THEN Invalid(<<fieldName, " must be no more than ", NumText(maxLength),
                      " characters long">>)
       ELSE Valid(Str(sanitized))

\* validateUUID(value, fieldName = 'ID', required = true)
ValidateUUID(value, fieldName, required) ==
  IF Falsy(value) THEN NotGiven(fieldName, required)
  ELSE IF value.t # "string" THEN Invalid(<<fieldName, " must be a string">>)
  ELSE LET sanitized == ToLowerCase(Trim(value.s)) IN
       IF ~TestUuid(sanitized) THEN Invalid(<<"Invalid ", fieldName, " format">>)
       ELSE Valid(Str(sanitized))

\* validateNumber(value, min, max, fieldName = 'Number', required = true)
ValidateNumber(value, min, max, fieldName, required) ==
  IF value.t \in {"null", "undefined"} THEN NotGiven(fieldName, required)
  ELSE LET num == ToNumber(value) IN
       IF num.t = "NaN" THEN Invalid(<<fieldName, " must be a valid number">>)
       ELSE IF Below(num, min)
       THEN Invalid(<<fieldName, " must be at least ", NumText(min)>>)
       ELSE IF Above(num, max)
       THEN Invalid(<<fieldName, " must be no more than ", NumText(max)>>)
       ELSE Valid(num)

\* validateInteger(value, min, max, fieldName = 'Integer', required = true)
ValidateInteger(value, min, max, fieldName, required) ==
  LET numberValidation == ValidateNumber(value, min, max, fieldName, required) IN
  IF ~numberValidation.isValid THEN numberValidation
  ELSE IF numberValidation.value # Null /\ ~IsInteger(numberValidation.value)
  THEN Invalid(<<fieldName, " must be an integer">>)
  ELSE numberValidation

\* validateDate(value, fieldName = 'Date', required = true).  What
\* new Date(text) makes of a text that is not in the standard format is left
\* to the engine: parsed is the date it produces.
ValidateDate(value, parsed, fieldName, required) ==
  IF Falsy(value) THEN NotGiven(fieldName, required)
  ELSE IF value.t \notin {"date", "string"}
  THEN Invalid(<<fieldName, " must be a valid date">>)
  ELSE LET date == IF value.t = "date" THEN value ELSE parsed IN
       IF date.frac THEN Invalid(<<fieldName, " must be a valid date">>)
       ELSE Valid(date)

\* validateEnum(value, allowedValues, fieldName = 'Field', required = true)
ValidateEnum(value, allowedValues, fieldName, required) ==
  IF Falsy(value) THEN NotGiven(fieldName, required)
  ELSE IF value \notin allowedValues
  THEN Invalid(<<fieldName, " must be one of: ", "allowedValues">>)
  ELSE Valid(value)

\* validateArray(value, minLength, maxLength, fieldName = 'Array', required = true)
ValidateArray(value, minLength, maxLength, fieldName, required) ==
  IF Falsy(value) THEN NotGiven(fieldName, required)
  ELSE IF value.t # "array" THEN Invalid(<<fieldName, " must be an array">>)
  ELSE IF value.n < minLength
  THEN Invalid(<<fieldName, " must have at least ", NumText(minLength), " items">>)
  ELSE IF value.n > maxLength
  THEN Invalid(<<fieldName, " must have no more than ", NumText(maxLength), " items">>)
  ELSE Valid(value)

\* validatePhone(phone, required = true)
ValidatePhone(phone, required) ==
  IF Falsy(phone) THEN NotGiven("Phone number", required)
  ELSE IF phone.t # "string" THEN Invalid(<<"Phone number", " must be a string">>)
  ELSE LET sanitized == Trim(phone.s) IN
       IF ~TestPhone(sanitized) THEN Invalid(<<"Invalid phone number format">>)
       ELSE IF Length(sanitized) > 20 THEN Invalid(<<"Phone number", " is too long">>)
       ELSE Valid(Str(sanitized))

\* validateUsername(username, required = true)
ValidateUsername(username, required) ==
  IF Falsy(username) THEN NotGiven("Username", required)
  ELSE IF username.t # "string" THEN Invalid(<<"Username", " must be a string">>)
  ELSE LET sanitized == Trim(username.s) IN
       IF ~TestUsername(sanitized)
       THEN Invalid(<<"Username", " must be 3-30 alphanumeric characters">>)
       ELSE Valid(Str(sanitized))

\* A call through a reference that lost its receiver: this is undefined in
\* the class body, and reading this.PATTERNS or this.createValidationResult
\* throws a TypeError.
ThrowsTypeError == [c |-> "throw", t |-> "error", err |-> "TypeError"]
Detached(receiver) == receiver = "undefined"
Call(receiver, result) == IF Detached(receiver) THEN ThrowsTypeError ELSE result

\* The validator functions a caller hands to validateObject, by field:
\*   email    v => ValidationHelper.validateEmail(v)
\*   detached ValidationHelper.validateEmail, handed over as it is
\*   limit    v => this.validateInteger(v, 1, 100, 'Limit', false) || {...}
\*   offset   v => this.validateInteger(v, 0, MAX_SAFE_INTEGER, 'Offset', false) || {...}
\*   lastEvaluatedKey
\*            v => this.validateStringLength(v, 1, 1000, 'LastEvaluatedKey', false)
\* Number.MAX_SAFE_INTEGER and Number.MIN_SAFE_INTEGER are out of the range
\* of the model's integers; these stand for them, beyond every number of
\* the model.
MAX_SAFE_INTEGER == 2147483647
MIN_SAFE_INTEGER == -2147483647
FieldNames == {"email", "limit", "offset", "lastEvaluatedKey"}
ValidatorKinds == {"email", "detached", "limit", "offset", "lastEvaluatedKey"}
Apply(kind, value) ==
  CASE kind = "email" -> ValidateEmail(value, TRUE)
    [] kind = "detached" -> ThrowsTypeError
    [] kind = "limit" -> ValidateInteger(value, 1, 100, "Limit", FALSE)
    [] kind = "offset" -> ValidateInteger(value, 0, MAX_SAFE_INTEGER, "Offset", FALSE)
    [] OTHER -> ValidateStringLength(value, 1, 1000, "LastEvaluatedKey", FALSE)

\* result.errors.map(error => `${field}: ${error}`)
RECURSIVE Prefixed(_, _)
Prefixed(field, errors) ==
  IF errors = << >> THEN << >>
  ELSE <<(<<field, ": ">> \o Head(errors))>> \o Prefixed(field, Tail(errors))

\* typeof data === 'object'
IsObject(data) == data.t \in {"null", "object", "array", "date"}

\* The loop of validateObject over Object.entries(validators), from entry i.
RECURSIVE ValidateEntries(_, _, _, _, _)
ValidateEntries(fields, validators, i, errors, validatedData) ==
  IF i > Len(validators)
  THEN IF Len(errors) > 0 THEN CreateValidationResult(FALSE, errors, Null)
       ELSE [CreateValidationResult(TRUE, << >>, Obj) EXCEPT !.fields = validatedData]
  ELSE LET field == validators[i][1]
           result == Apply(validators[i][2], fields[field])
       IN  IF result.c = "throw" THEN result
           ELSE IF ~result.isValid
           THEN ValidateEntries(fields, validators, i + 1,
                                errors \o Prefixed(field, result.errors), validatedData)
           ELSE IF result.value.t \notin {"null", "undefined"}
           THEN ValidateEntries(fields, validators, i + 1, errors,
                                validatedData \cup {<<field, result.value>>})
           ELSE ValidateEntries(fields, validators, i + 1, errors, validatedData)

\* validateObject(data, validators); fields[f] is data[f].
ValidateObject(data, fields, validators) ==
  IF Falsy(data) \/ ~IsObject(data) THEN Invalid(<<"Data must be an object">>)
  ELSE ValidateEntries(fields, validators, 1, << >>, {})

\* validatePagination(params = {})
PaginationValidators ==
  <<(<<"limit", "limit">>), (<<"offset", "offset">>),
    (<<"lastEvaluatedKey", "lastEvaluatedKey">>)>>
NoFields == [f \in FieldNames |-> Undef]
ValidatePagination(params, fields) ==
  IF params.t = "undefined" THEN ValidateObject(Obj, NoFields, PaginationValidators)
  ELSE ValidateObject(params, fields, PaginationValidators)

\* Arguments of the calls.
MaxBlocks == 2
Alphabet == {" ", "a", "1", "@"}
ShortTexts == SeqsUpTo(Alphabet, MaxBlocks)
Padding == {<< >>, <<" ">>}
EmailTexts ==
  {pre \o local \o <<"@", "b", ".", "a">> \o post :
     pre \in Padding, post \in Padding,
     local \in {<<"a">>, <<"A">>, <<LongBlock>>, <<LongBlock, "a">>, <<"a", " ", "b">>}}
OtherTexts ==
  {<<UuidBlock>>, <<" ", UuidBlock>>, <<"a", "b", "1">>, <<"+", "1", "-", "5">>,
   <<"1", ".", "5">>, <<"1", ".", "0">>, <<" ", "5", " ">>, <<"1", "0", "1">>}
Texts == ShortTexts \cup EmailTexts \cup OtherTexts
Values ==
  {Null, Undef, NaN, Obj, InvalidDate, DateOf(1), Bool(FALSE), Bool(TRUE)}
    \cup {Str(s) : s \in Texts}
    \cup {Num(n) : n \in {-1, 0, 1, 5, 101}}
    \cup {NumAndFraction(n) : n \in {0, 1, 100}}
    \cup {Arr(n) : n \in 0..(MaxItems + 1)}
Receivers == {"ValidationHelper", "undefined"}
Optional(S) == {<< >>} \cup {<<x>> : x \in S}
Required == Optional(BOOLEAN)
FieldNameArgs == Optional({"Age"})
NumberRanges == {<<(<< >>), (<< >>)>>, <<(<<1>>), (<<100>>)>>, <<(<<0>>), (<<5>>)>>}
LengthRanges == {<<(<< >>), (<< >>)>>, <<(<<1>>), (<<3>>)>>, <<(<<2>>), (<< >>)>>}
AllowedValues ==
  {{Str(<<"a">>), Str(<<"1">>)}, {Num(0), Num(1)}, {Bool(FALSE), Bool(TRUE)}}
ParsedDates == {DateOf(1), InvalidDate}
ObjectData == {Null, Undef, Obj, Arr(0), Str(<<"a">>), Num(1)}
EmailFields == {Undef, Str(<<"a">>), Str(<<"A", "@", "b", ".", "a">>)}
LimitFields == {Undef, Null, Num(0), Num(5), NumAndFraction(1), Str(<<"5">>)}
OffsetFields == {Undef, Num(0), Num(-1)}
KeyFields == {Undef, Str(<< >>), Str(<<"a">>)}
FieldValues ==
  {[f \in FieldNames |->
      CASE f = "email" -> e [] f = "limit" -> l [] f = "offset" -> o [] OTHER -> k] :
     e \in EmailFields, l \in LimitFields, o \in OffsetFields, k \in KeyFields}
MaxValidators == 2
Entries == {<<"email", "email">>, <<"email", "detached">>, <<"limit", "limit">>}
ValidatorLists ==
  {v \in SeqsUpTo(Entries, MaxValidators) :
     \A p, q \in DOMAIN v : p # q => v[p][1] # v[q][1]}
ObjectFields == {f \in FieldValues : f["offset"] = Undef /\ f["lastEvaluatedKey"] = Undef}
PaginationFields == {f \in FieldValues : f["email"] = Undef}

ValidationCalls ==
  {[fn |-> "validateEmail", receiver |-> r, value |-> v, required |-> q] :
     r \in Receivers, v \in Values, q \in Required}
  \cup
  {[fn |-> "validateRequired", receiver |-> r, value |-> v, fieldName |-> f] :
     r \in Receivers, v \in Values, f \in FieldNameArgs}
  \cup
  {[fn |-> "validateStringLength", receiver |-> r, value |-> v, range |-> g,
    fieldName |-> f, required |-> q] :
     r \in Receivers, v \in Values, g \in LengthRanges, f \in FieldNameArgs,
     q \in Required}
  \cup
  {[fn |-> "validateUUID", receiver |-> r, value |-> v, fieldName |-> f,
    required |-> q] :
     r \in Receivers, v \in Values, f \in FieldNameArgs, q \in Required}
  \cup
  {[fn |-> n, receiver |-> r, value |-> v, range |-> g, fieldName |-> f,
    required |-> q] :
     n \in {"validateNumber", "validateInteger"}, r \in Receivers, v \in Values,
     g \in NumberRanges, f \in FieldNameArgs, q \in Required}
  \cup
  {[fn |-> "validateDate", receiver |-> r, value |-> v, parsed |-> d,
    fieldName |-> f, required |-> q] :
     r \in Receivers, v \in Values, d \in ParsedDates, f \in FieldNameArgs,
     q \in Required}
  \cup
  {[fn |-> "validateEnum", receiver |-> r, value |-> v, allowedValues |-> a,
    fieldName |-> f, required |-> q] :
     r \in Receivers, v \in Values, a \in AllowedValues, f \in FieldNameArgs,
     q \in Required}
  \cup
  {[fn |-> "validateArray", receiver |-> r, value |-> v, range |-> g,
    fieldName |-> f, required |-> q] :
     r \in Receivers, v \in Values, g \in LengthRanges, f \in FieldNameArgs,
     q \in Required}
  \cup
  {[fn |-> n, receiver |-> r, value |-> v, required |-> q] :
     n \in {"validatePhone", "validateUsername"}, r \in Receivers, v \in Values,
     q \in Required}
  \cup
  {[fn |-> "validateObject", receiver |-> r, data |-> d, fields |-> f,
    validators |-> v] :
     r \in Receivers, d \in ObjectData, f \in ObjectFields, v \in ValidatorLists}
  \cup
  {[fn |-> "validatePagination", receiver |-> r, data |-> d, fields |-> f] :
     r \in Receivers, d \in ObjectData, f \in PaginationFields}

\* Each validator is called on the class, ValidationHelper.validateX(...), or
\* through its named export, validateX(...), which has no receiver.
ValidateEmailCall ==
  /\ Pending /\ input.fn = "validateEmail"
  /\ BoundaryStep(Call(input.receiver,
         ValidateEmail(input.value, Default(input.required, TRUE))))

ValidateRequiredCall ==
  /\ Pending /\ input.fn = "validateRequired"
  /\ BoundaryStep(Call(input.receiver,
         ValidateRequired(input.value, Default(input.fieldName, "Field"))))

ValidateStringLengthCall ==
  /\ Pending /\ input.fn = "validateStringLength"
  /\ BoundaryStep(Call(input.receiver,
         ValidateStringLength(input.value, Default(input.range[1], 0),
         Default(input.range[2], 255),
         Default(input.fieldName, "Field"),
         Default(input.required, TRUE))))

ValidateUUIDCall ==
  /\ Pending /\ input.fn = "validateUUID"
  /\ BoundaryStep(Call(input.receiver,
         ValidateUUID(input.value, Default(input.fieldName, "ID"),
         Default(input.required, TRUE))))

ValidateNumberCall ==
  /\ Pending /\ input.fn = "validateNumber"
  /\ BoundaryStep(Call(input.receiver,
         ValidateNumber(input.value, Default(input.range[1], MIN_SAFE_INTEGER),
         Default(input.range[2], MAX_SAFE_INTEGER),
         Default(input.fieldName, "Number"),
         Default(input.required, TRUE))))

ValidateIntegerCall ==
  /\ Pending /\ input.fn = "validateInteger"
  /\ BoundaryStep(Call(input.receiver,
         ValidateInteger(input.value, Default(input.range[1], MIN_SAFE_INTEGER),
         Default(input.range[2], MAX_SAFE_INTEGER),
         Default(input.fieldName, "Integer"),
         Default(input.required, TRUE))))

ValidateDateCall ==
  /\ Pending /\ input.fn = "validateDate"
  /\ BoundaryStep(Call(input.receiver,
         ValidateDate(input.value, input.parsed, Default(input.fieldName, "Date"),
         Default(input.required, TRUE))))

ValidateEnumCall ==
  /\ Pending /\ input.fn = "validateEnum"
  /\ BoundaryStep(Call(input.receiver,
         ValidateEnum(input.value, input.allowedValues,
         Default(input.fieldName, "Field"),
         Default(input.required, TRUE))))

ValidateArrayCall ==
  /\ Pending /\ input.fn = "validateArray"
  /\ BoundaryStep(Call(input.receiver,
         ValidateArray(input.value, Default(input.range[1], 0),
         Default(input.range[2], 1000),
         Default(input.fieldName, "Array"),
         Default(input.required, TRUE))))

ValidatePhoneCall ==
  /\ Pending /\ input.fn = "validatePhone"
  /\ BoundaryStep(Call(input.receiver,
         ValidatePhone(input.value, Default(input.required, TRUE))))

ValidateUsernameCall ==
  /\ Pending /\ input.fn = "validateUsername"
  /\ BoundaryStep(Call(input.receiver,
         ValidateUsername(input.value, Default(input.required, TRUE))))

ValidateObjectCall ==
  /\ Pending /\ input.fn = "validateObject"
  /\ BoundaryStep(Call(input.receiver,
         ValidateObject(input.data, input.fields, input.validators)))

ValidatePaginationCall ==
  /\ Pending /\ input.fn = "validatePagination"
  /\ BoundaryStep(Call(input.receiver,
         ValidatePagination(input.data, input.fields)))

ValidationInit ==
  /\ mode = "with" /\ middlewares = << >> /\ handler = "ok"
  /\ maxRequests = DefaultMaxRequests
  /\ windowMs = DefaultWindowMs
  /\ self = "MiddlewareHelper"
  /\ InitPipeline
  /\ input \in ValidationCalls
  /\ output = NoOutput

ValidationNext ==
  \/ ValidateEmailCall
  \/ ValidateRequiredCall
  \/ ValidateStringLengthCall
  \/ ValidateUUIDCall
  \/ ValidateNumberCall
  \/ ValidateIntegerCall
  \/ ValidateDateCall
  \/ ValidateEnumCall
  \/ ValidateArrayCall
  \/ ValidatePhoneCall
  \/ ValidateUsernameCall
  \/ ValidateObjectCall
  \/ ValidatePaginationCall

ValidationSpec == ValidationInit /\ [][ValidationNext]_vars

\* ------------------------------------------------- the service wrappers
\* DatabaseService and MessageService each come in two versions: one whose
\* methods await the SDK call in a try block and hand a failure to
\* handleError, and one whose methods wrap the SDK's callback in a promise.
\* receiveAndDelete is modelled in the handleError version.
Versions == {"handleError", "callback"}
DatabaseOps ==
  {"put", "get", "update", "delete", "batchWrite", "batchGet", "query", "scan"}
MessageOps == {"send", "receive", "deleteMessage", "receiveAndDelete"}
ServiceCalls ==
  {[fn |-> op, service |-> "DatabaseService", version |-> v] :
     op \in DatabaseOps, v \in Versions}
  \cup
  {[fn |-> op, service |-> "MessageService", version |-> v] :
     op \in MessageOps \ {"receiveAndDelete"}, v \in Versions}
  \cup
  {[fn |-> "receiveAndDelete", service |-> "MessageService",
    version |-> "handleError"]}

\* What the SDK's send resolves to: Item and Attributes are an object or
\* missing, Items, Responses[table] and Messages are lists of that many
\* elements (Messages is missing when no message was received).
SdkData ==
  {[Item |-> item, Attributes |-> item, Items |-> Arr(n), Messages |-> m] :
     item \in {Undef, Obj}, n \in 0..MaxItems, m \in {Undef, Arr(1)}}
\* What it rejects with: error objects of the SDK, with $metadata or not.
SdkErrors ==
  {[name |-> n, metadata |-> m] :
     n \in {"ResourceNotFoundException", "ThrottlingException"}, m \in BOOLEAN}
NoError == [name |-> "", metadata |-> FALSE]

\* The result the method returns when send has resolved to data.
Reshape(op, data) ==
  CASE op = "get" -> data.Item
    [] op = "update" -> data.Attributes
    [] op \in {"batchGet", "query", "scan"} -> data.Items
    [] OTHER -> Obj

\* The options of the handleError call in the method's catch block.
Fallback(call) ==
  CASE call.version = "callback" -> Undef
    [] call.service = "DatabaseService" /\ call.fn = "get" -> Null
    [] call.service = "DatabaseService" /\ call.fn \in {"batchGet", "query", "scan"} ->
         Arr(0)
    [] call.service = "MessageService" /\ call.fn = "receive" -> Null
    [] OTHER -> Undef

\* handleError(error, methodName, options = {})
ServiceHandleErrorSwallows(error, methodName, fallback) ==
  [c |-> "return", value |-> fallback, err |-> NoError]
ServiceHandleError(error, methodName, fallback) ==
  IF fallback # Undef
  THEN [c |-> "return", value |-> fallback, err |-> NoError]
  ELSE [c |-> "throw", value |-> Undef, err |-> error]

\* The promise of the method: pending on the n-th send, resolved or
\* rejected; failed is the error the SDK call failed with, logged the
\* method names handleError has written to console.error.
Sent(n) ==
  [c |-> "sent", sends |-> n, value |-> Undef, err |-> NoError,
   failed |-> NoError, logged |-> << >>]
Resolved(value, failed, logged) ==
  [c |-> "resolved", sends |-> 0, value |-> value, err |-> NoError,
   failed |-> failed, logged |-> logged]
RejectedWith(err, failed, logged) ==
  [c |-> "rejected", sends |-> 0, value |-> Undef, err |-> err,
   failed |-> failed, logged |-> logged]

\* catch (error) { [return] this.handleError(error, name[, { fallback }]) },
\* or, in the callback version, if (err) reject(err).
Caught(call, error) ==
  IF call.version = "callback" THEN RejectedWith(error, error, << >>)
  ELSE LET handled == ServiceHandleError(error, call.fn, Fallback(call)) IN
       IF handled.c = "throw" THEN RejectedWith(handled.err, error, <<call.fn>>)
       ELSE Resolved(handled.value, error, <<call.fn>>)

\* A method of a service is called: it builds the command and sends it.
ServiceCall ==
  /\ Pending /\ input.fn \in DatabaseOps \cup MessageOps
  /\ BoundaryStep(Sent(1))

\* The SDK call succeeds.
SdkResolves ==
  /\ output.c = "sent"
  /\ \E data \in SdkData :
       BoundaryStep(
         IF input.fn = "receiveAndDelete" /\ output.sends = 1
         THEN IF data.Messages # Undef THEN Sent(2)
              ELSE Resolved(Undef, NoError, << >>)
         ELSE Resolved(Reshape(input.fn, data), NoError, << >>))

\* The SDK call fails.
SdkRejects ==
  /\ output.c = "sent"
  /\ \E error \in SdkErrors : BoundaryStep(Caught(input, error))

ServiceInit ==
  /\ mode = "with" /\ middlewares = << >> /\ handler = "ok"
  /\ maxRequests = DefaultMaxRequests
  /\ windowMs = DefaultWindowMs
  /\ self = "MiddlewareHelper"
  /\ InitPipeline
  /\ input \in ServiceCalls
  /\ output = NoOutput

ServiceNext ==
  \/ ServiceCall
  \/ SdkResolves
  \/ SdkRejects

ServiceSpec == ServiceInit /\ [][ServiceNext]_vars

\* ===================================================== claims: the chain
NSteps == Len(middlewares)
Range(q) == {q[p] : p \in DOMAIN q}
Done(i) == inv[i].pc = "done"

\* The steps were invoked in the order supplied: 0, 1, 2, ...
InOrder(calls) == \A p \in DOMAIN calls : calls[p] = p - 1

\* A response envelope: a value with a status code.
StatusResponse(r) == r.c = "return" /\ r.t = "response" /\ r.status \in 100..599

\* A step that returned without having called next.
Halted(o) == o.nx = 0 /\ o.comp.c = "return"

NoLaterStep(l, k) == \A p \in DOMAIN l.calls : l.calls[p] <= k

\* C1: in a handler built by composeMiddleware the steps run in the order
\* supplied, step k+1 is started only by step k's call of next, and a step
\* that returns without calling next keeps every later step from running
\* and its return value is the result of the composed handler.
C1_ComposeOrderAndHalt ==
  mode = "compose" =>
    \A i \in Invocations :
      LET l == inv[i] IN
      /\ InOrder(l.calls)
      /\ \A e \in Range(l.nexts) : ~e.raised => e.caller = e.idx - 1
      /\ \A o \in Range(l.outs) :
           Halted(o) =>
             /\ NoLaterStep(l, o.k)
             /\ Done(i) => l.result = o.comp

\* C2 as stated: under withMiddleware the steps run in order, the first
\* response a step returns is the result and ends the chain, and the handler
\* runs exactly once if and only if no step returned a response.
C2_WithShortCircuit ==
  mode = "with" =>
    \A i \in Invocations :
      LET l == inv[i] IN
      /\ InOrder(l.calls)
      /\ l.hruns <= 1
      /\ \A o \in Range(l.outs) :
           StatusResponse(o.comp) =>
             /\ NoLaterStep(l, o.k)
             /\ l.hruns = 0
             /\ Done(i) => l.result = o.comp
      /\ Done(i) => (l.hruns = 1 <=> ~\E o \in Range(l.outs) : StatusResponse(o.comp))

\* C2 amended: as C2, but the handler runs exactly once if and only if no
\* step returned a response with a status code and no step threw.
C2_WithShortCircuitAmended ==
  mode = "with" =>
    \A i \in Invocations :
      LET l == inv[i] IN
      /\ InOrder(l.calls)
      /\ l.hruns <= 1
      /\ \A o \in Range(l.outs) :
           StatusResponse(o.comp) =>
             /\ NoLaterStep(l, o.k)
             /\ l.hruns = 0
             /\ Done(i) => l.result = o.comp
      /\ Done(i) => (l.hruns = 1 <=>
                       ~\E o \in Range(l.outs) : StatusResponse(o.comp) \/ o.comp.c = "throw")

\* C2 witness: the second or a later step answered and the handler did not run.
C2_Witness ==
  /\ mode = "with"
  /\ \E i \in Invocations :
       /\ Done(i) /\ StatusResponse(inv[i].result)
       /\ inv[i].result.by >= 1 /\ inv[i].hruns = 0

\* C3: under withMiddleware a step that returns without calling next halts
\* the chain: no later step runs and the handler does not run.
C3_WithHaltWithoutNext ==
  mode = "with" =>
    \A i \in Invocations :
      \A o \in Range(inv[i].outs) :
        Halted(o) => NoLaterStep(inv[i], o.k) /\ inv[i].hruns = 0

\* C4: an error thrown (or a promise rejected) by a step or by the handler
\* becomes the errorHandler's response when an error-handling step stands
\* earlier in the chain, reaches the caller otherwise, and is never dropped.
HasHandlerBefore(k) == \E e \in 0..(k - 1) : Kind(e) = "errh"
Delivered(l, k, err) ==
  IF HasHandlerBefore(k)
  THEN StatusResponse(l.result) /\ l.result.err = err
  ELSE Raised(l.result) /\ l.result.err = err
C4_ErrorsReachHandler ==
  \A i \in Invocations :
    LET l == inv[i] IN
    /\ l.unhandled = {}
    /\ Done(i) =>
         /\ \A o \in Range(l.outs) :
              Kind(o.k) \in {"throw", "reject"} => Delivered(l, o.k, o.comp.err)
         /\ (l.hruns = 1 /\ handler # "ok") => Delivered(l, NSteps, "HandlerError")

\* C7: one invocation of a composed handler invokes every step at most
\* once, also when a step calls next more than once.
C7_StepAtMostOnce ==
  mode = "compose" =>
    \A i \in Invocations :
      \A p, q \in DOMAIN inv[i].calls :
        p # q => inv[i].calls[p] # inv[i].calls[q]

\* C7 witness: a step called next twice and both calls started a step.
C7_Witness ==
  /\ mode = "compose"
  /\ \E i \in Invocations :
       /\ Done(i) /\ Len(inv[i].calls) = 3
       /\ \E o \in Range(inv[i].outs) : o.nx = 2

\* C8: in a composed handler a call of next with no step left raises the
\* 'No more middleware to execute' error: the call does not return, the last
\* step that calls next ends with that error, and a handler composed from
\* zero steps throws it.
C8_NoMoreMiddleware ==
  mode = "compose" =>
    \A i \in Invocations :
      LET l == inv[i] IN
      /\ \A e \in Range(l.nexts) : e.idx >= NSteps <=> e.raised
      /\ \A o \in Range(l.outs) :
           (o.k = NSteps - 1 /\ o.nx >= 1) =>
              /\ o.comp.err = "NoMoreMiddleware"
              /\ Kind(o.k) # "errh" => o.comp.c = "throw"
      /\ (Done(i) /\ NSteps = 0) => l.result = Thrown("NoMoreMiddleware", -1)

\* C8 witness: the last of several steps called next and the composed
\* handler threw the error.
C8_Witness ==
  /\ mode = "compose" /\ NSteps >= 2
  /\ \E i \in Invocations :
       /\ Done(i)
       /\ inv[i].result.c = "throw" /\ inv[i].result.err = "NoMoreMiddleware"
       /\ inv[i].result.by = NSteps - 1

\* C9: every invocation starts at step 0 and walks the chain with its own
\* position, whatever other invocations did before or do in between, and a
\* step of one invocation changes no local state of another.
OwnPosition(l) ==
  l.pc # "idle" => /\ InOrder(l.calls)
                   /\ l.index = Len(l.calls)
                   /\ (l.pc = "awaiting" => l.index = NSteps)
C9_Independent ==
  /\ [](\A i \in Invocations : OwnPosition(inv[i]))
  /\ [][\A i, j \in Invocations :
          (i # j /\ inv[i]' # inv[i]) => inv[j]' = inv[j]]_vars

\* C9 witness: one invocation waits for its handler while another one, that
\* started later, is in the middle of the chain.
C9_Witness ==
  \E i, j \in Invocations :
    /\ inv[i].pc = "awaiting"
    /\ inv[j].pc = "running" /\ inv[j].calls = <<0, 1>>

\* C10: an OPTIONS request that reaches the CORS step yields status 200 with
\* the CORS headers, Access-Control-Max-Age and an empty body, and no later
\* step nor the handler runs; for any other method the step calls next.
C10_CorsPreflight ==
  \A i \in Invocations :
    LET l == inv[i] IN
    \A o \in Range(l.outs) :
      Kind(o.k) \in {"cors", "corsBound"} =>
        IF l.method = "OPTIONS"
        THEN /\ StatusResponse(o.comp) /\ o.comp.status = 200
             /\ o.comp.headers = DEFAULT_CORS_HEADERS \cup {"Access-Control-Max-Age"}
             /\ o.comp.body = ""
             /\ o.nx = 0
             /\ NoLaterStep(l, o.k) /\ l.hruns = 0
        ELSE o.nx = 1

\* ============================================== claims: the rate limiter
Count(list, t) == Cardinality({p \in DOMAIN list : list[p] = t})

\* C5: with maximum N and window W the limiter lets a request pass (calls
\* next) while the caller has fewer than N admitted requests inside the
\* window, which includes every request made once W has elapsed since the
\* admitted ones, and answers any other request with status 429 and a
\* Retry-After header without calling next.
C5_RateWindow ==
  \A i \in Invocations :
    LET l == inv[i] IN
    \A o \in Range(l.outs) :
      Kind(o.k) = "rate" =>
        IF l.room = "room"
        THEN o.nx = 1
        ELSE /\ o.nx = 0
             /\ StatusResponse(o.comp) /\ o.comp.status = 429
             /\ "Retry-After" \in o.comp.headers

\* C6: no two invocations are inside the limiter's read-prune-check-record
\* sequence at once, every admitted timestamp that is still inside the
\* window is in the caller's list, and no caller has more than the maximum
\* of admitted requests inside one window.
InLimiter(i) ==
  /\ inv[i].pc = "running"
  /\ inv[i].stack # << >>
  /\ TopKind(inv[i]) = "rate"
  /\ Top(inv[i]).at \in {"prune", "check", "record"}
C6_LimiterAtomic ==
  /\ \A i, j \in Invocations : i # j => ~(InLimiter(i) /\ InLimiter(j))
  /\ \A c \in DOMAIN admitted :
       /\ \A t \in Range(admitted[c]) :
            Count(admitted[c], t) <= Count(Get(requests, c), t)
       /\ Len(admitted[c]) <= maxRequests

\* C6 witness: two invocations of one caller are in flight at once, both
\* were admitted, and both timestamps are in the caller's list.
C6_Witness ==
  \E i, j \in Invocations :
    /\ i # j
    /\ inv[i].pc = "awaiting" /\ inv[j].pc = "awaiting"
    /\ inv[i].ip = inv[j].ip
    /\ Len(Get(requests, ClientId(inv[i].ip))) = 2
    /\ Len(Get(admitted, ClientId(inv[i].ip))) = 2

\* ============================================ claims: the library's steps
\* The handler of the chain ran: withMiddleware's handler, or the last step
\* of a composed chain.
HandlerRan(l) ==
  \/ l.hruns >= 1
  \/ mode = "compose" /\ (NSteps - 1) \in Range(l.calls)

\* The step at position k ended the chain with an error response.
ShortCircuit(l, o, status, code) ==
  /\ StatusResponse(o.comp) /\ o.comp.status = status /\ o.comp.err = code
  /\ o.nx = 0
  /\ NoLaterStep(l, o.k) /\ ~HandlerRan(l)

\* C11: behind the body-parsing step a raw body that is not valid JSON
\* yields a response with status 400 and code INVALID_JSON and the handler
\* is never invoked; a valid body is stored as event.parsedBody before next
\* is called.
C11_BodyParser ==
  \A i \in Invocations :
    LET l == inv[i] IN
    \A o \in Range(l.outs) :
      Kind(o.k) \in {"json", "jsonBound"} =>
        /\ l.event.body = MalformedBody => ShortCircuit(l, o, 400, "INVALID_JSON")
        /\ l.event.body = EmailBody => o.nx = 1 /\ l.event.parsedBody = EmailObject
        /\ l.event.body = EmptyObjectBody =>
             o.nx = 1 /\ l.event.parsedBody = EmptyObject

\* C12: the validation step calls next if and only if the validator reports
\* isValid; on failure it returns status 400 with code VALIDATION_ERROR and
\* the validator's errors as details and the handler is not run; on success
\* event.validatedData is the validator's value when the handler runs.
Validated(l) ==
  Validator(IF l.event.parsedBody # Undefined THEN l.event.parsedBody
            ELSE l.event.body,
            l.event.pathParameters, l.event.queryStringParameters)
C12_Validation ==
  \A i \in Invocations :
    LET l == inv[i] IN
    \A o \in Range(l.outs) :
      Kind(o.k) = "validate" =>
        IF Validated(l).isValid
        THEN /\ o.nx = 1
             /\ HandlerRan(l) => l.atHandler.validatedData = Validated(l).value
        ELSE /\ ShortCircuit(l, o, 400, "VALIDATION_ERROR")
             /\ o.comp.details = Validated(l).errors

\* C13: the path- and query-parameter steps run the validator of every
\* declared parameter; when at least one fails, the 400 response's details
\* have exactly the failing parameters as keys, each with that validator's
\* errors, and next is not called; next is called iff no parameter fails.
Given(l, k) ==
  IF Kind(k) = "queryv" THEN l.event.queryStringParameters
  ELSE l.event.pathParameters
Failing(values) == {p \in Params : values[p] # "good"}
C13_AllParameters ==
  \A i \in Invocations :
    LET l == inv[i] IN
    \A o \in Range(l.outs) :
      Kind(o.k) \in {"pathv", "queryv"} =>
        /\ Range(l.checked) = Params
        /\ IF Failing(Given(l, o.k)) = {}
           THEN o.nx = 1
           ELSE /\ ShortCircuit(l, o, 400, "VALIDATION_ERROR")
                /\ {d[1] : d \in o.comp.details} = Failing(Given(l, o.k))
                /\ \A d \in o.comp.details :
                     d[2] \in Range(ParamValidator(Given(l, o.k)[d[1]]).errors)

\* C14: the authentication step calls next only if an Authorization header
\* is present and the validator accepts it, and then event.user is the
\* identity the validator returned; a missing header or a rejected
\* credential yields status 401 with code UNAUTHORIZED without calling next.
C14_Authentication ==
  \A i \in Invocations :
    LET l == inv[i] IN
    \A o \in Range(l.outs) :
      Kind(o.k) = "auth" =>
        IF l.event.authorization = GoodToken
        THEN o.nx = 1 /\ l.event.user = "alice"
        ELSE ShortCircuit(l, o, 401, "UNAUTHORIZED")

\* C15: when the rest of the chain completes without raising, the logging
\* step logs the completion with duration and status, returns the
\* downstream result unchanged and raises nothing itself; when the rest of
\* the chain raises, it logs the failure and re-raises the same exception;
\* under composeMiddleware and under withMiddleware.
Logged(l, k) == {e \in Range(l.log) : e.k = k /\ e.message # "Incoming request"}
C15_Logging ==
  \A i \in Invocations :
    LET l == inv[i] IN
    \A o \in Range(l.outs) :
      Kind(o.k) = "log" =>
        /\ o.nx = 1
        /\ \A e \in Logged(l, o.k) :
             /\ o.comp = e.down
             /\ IF Raised(e.down)
                THEN e.message = "Request failed" /\ e.err = e.down.err
                ELSE /\ e.message = "Request completed"
                     /\ StatusResponse(e.down) => e.status = e.down.status
        /\ Logged(l, o.k) # {}

\* ======================================= claims: the error taxonomy mapper
\* The mapping table: kind of error -> <<status, code>>.
Unclassified == <<500, "INTERNAL_SERVER_ERROR">>
TableRow(error) ==
  CASE error.name = "ValidationError" -> <<400, "VALIDATION_ERROR">>
    [] error.name = "NotFoundError" -> <<404, "NOT_FOUND">>
    [] error.name = "ConflictError" -> <<409, "CONFLICT">>
    [] error.name = "UnauthorizedError" -> <<401, "UNAUTHORIZED">>
    [] error.name = "ForbiddenError" -> <<403, "FORBIDDEN">>
    [] error.name = "BusinessLogicError" -> <<400, "BUSINESS_LOGIC_ERROR">>
    [] error.name = "ConditionalCheckFailedException" -> <<409, "CONFLICT">>
    [] error.name = "ResourceNotFoundException" -> <<404, "NOT_FOUND">>
    [] error.name = "ProvisionedThroughputExceededException" -> <<503, "SERVICE_UNAVAILABLE">>
    [] error.name = "ThrottlingException" -> <<503, "SERVICE_UNAVAILABLE">>
    [] error.name = "ItemCollectionSizeLimitExceededException" -> <<413, "REQUEST_TOO_LARGE">>
    [] error.name = "ValidationException" -> <<400, "VALIDATION_ERROR">>
    [] error.name = "AccessDeniedException" -> <<403, "FORBIDDEN">>
    [] error.name = "InternalServerError" -> <<503, "SERVICE_UNAVAILABLE">>
    [] error.name = "ServiceUnavailableException" -> <<503, "SERVICE_UNAVAILABLE">>
    [] error.name = "SyntaxError" /\ error.message = JsonMessage -> <<400, "VALIDATION_ERROR">>
    [] error.name = "TimeoutError" -> <<408, "REQUEST_TIMEOUT">>
    [] OTHER -> Unclassified

Answered == output.c # "none"
IsRecord(out) == out.c = "return" /\ out.t = "record"

\* C16: for every error value handleError returns the status and code of
\* the mapping table's row for its kind, and an error that matches no other
\* row maps to 500 INTERNAL_SERVER_ERROR.
C16_MappingTable ==
  (/\ Answered /\ input.fn = "handleError"
   /\ ~input.error.nil /\ input.error.message # Undefined
   /\ input.context.kind # "null") =>
     /\ IsRecord(output)
     /\ <<output.statusCode, output.code>> = TableRow(input.error)

\* C17: handleError never throws: for any error value, one without name or
\* message included, it returns a record with statusCode and code; a
\* handler wrapped by wrapHandler that raises resolves to such a record.
C17_NeverThrows ==
  (/\ Answered /\ input.raises /\ input.context.kind # "null") =>
     /\ IsRecord(output)
     /\ output.statusCode \in 400..599 /\ output.code # ""

\* C18: outside development mode no record handleError returns has a stack
\* trace, an exception class name or the foreign exception's own message in
\* its error details.
C18_NoLeakOutsideDevelopment ==
  (Answered /\ input.nodeEnv # "development" /\ IsRecord(output)) =>
     \A d \in output.details :
       /\ d[1] \notin {"stack", "errorType"}
       /\ d[2] \notin {StackTrace, ClassName}
       /\ (input.error.name \notin DomainNames
             /\ input.error.message \notin {Undefined, ""})
          => d[2] # input.error.message

\* C19: every record handleError produces has a correlation id, equal to
\* its requestId: context.correlationId when set, otherwise
\* context.awsRequestId, and a generated id only when the context has
\* neither.
IsSet(id) == id \notin {Undefined, ""}
C19_CorrelationId ==
  (Answered /\ IsRecord(output)) =>
     /\ output.correlationId = output.requestId
     /\ IF IsSet(input.context.correlationId)
        THEN output.correlationId = input.context.correlationId
        ELSE IF IsSet(input.context.awsRequestId)
        THEN output.correlationId = input.context.awsRequestId
        ELSE output.correlationId \in GeneratedIds

\* C19 witness: a record for a call whose context has both ids.
C19_Witness ==
  /\ Answered /\ IsRecord(output)
  /\ input.fn = "wrapHandler"
  /\ input.context.correlationId = "corr-1" /\ input.context.awsRequestId = "aws-1"
  /\ output.correlationId = "corr-1"

\* ============================================ claims: the response builder
StandardHeaders ==
  {"Content-Type", "X-Correlation-ID", "X-Request-ID"} \cup DOMAIN CorsValues

\* C20: every response returned to a caller carries the standard headers:
\* Content-Type: application/json, the four CORS default headers,
\* X-Correlation-ID and X-Request-ID; the responses of success, error,
\* paginated and noContent and those of the steps that end a chain (CORS
\* preflight, 400, 401, 429).
C20_StandardHeaders ==
  (Answered /\ output.c = "return") =>
     /\ StandardHeaders \subseteq DOMAIN output.headers
     /\ (input.fn # "success" \/ "Content-Type" \notin DOMAIN input.additionalHeaders)
          => output.headers["Content-Type"] = "application/json"
     /\ \A h \in DOMAIN CorsValues : output.headers[h] = CorsValues[h]

\* C21: for every call of error(message, statusCode, code, details,
\* correlationId) the parsed body has error.message equal to message,
\* error.code equal to code when a code is given, and a top-level
\* correlationId equal to requestId, which is the supplied correlation id
\* when one is given; the statusCode is the one supplied, 500 by default.
C21_ErrorEnvelope ==
  (Answered /\ input.fn = "error") =>
     LET parsed == output.body.json IN
     /\ output.body.present
     /\ parsed.error.message = input.message
     /\ IsSet(input.code) => parsed.error.code = input.code
     /\ parsed.correlationId = parsed.requestId
     /\ IsSet(input.correlationId) => parsed.correlationId = input.correlationId
     /\ output.statusCode = IF input.statusCode = << >> THEN 500
                            ELSE input.statusCode[1]

\* C21 witness: error was called with a status, a code and a correlation id.
C21_Witness ==
  /\ Answered /\ input.fn = "error"
  /\ input.statusCode = <<404>> /\ input.code = "NOT_FOUND"
  /\ input.correlationId = "corr-1"
  /\ output.statusCode = 404

\* C22: for every call of success, whatever extra headers the caller
\* passes, the X-Correlation-ID and X-Request-ID headers of the response
\* carry the identical value: the supplied correlation id when one is
\* given, a generated id otherwise.
C22_SuccessIdHeaders ==
  (Answered /\ input.fn = "success") =>
     /\ output.headers["X-Correlation-ID"] = output.headers["X-Request-ID"]
     /\ IF IsSet(input.correlationId)
        THEN output.headers["X-Request-ID"] = input.correlationId
        ELSE output.headers["X-Request-ID"] \in GeneratedIds

\* ------------------------------------------------------------ C23 .. C26
\* A validator has returned a validation result.
Resulted == output.c = "return" /\ output.t = "result"

\* C23: every validation result returned by any of the thirteen validators
\* satisfies: if isValid is false then value is null and errors is
\* non-empty; if isValid is true then errors is empty.
C23_ResultInvariant ==
  Resulted =>
     /\ ~output.isValid =>
          output.value = Null /\ output.fields = {} /\ output.errors # << >>
     /\ output.isValid => output.errors = << >>

\* C23 witness: validateObject returned an invalid result that carries the
\* errors of two failing fields.
C23_Witness ==
  /\ Resulted /\ input.fn = "validateObject"
  /\ ~output.isValid /\ Len(output.errors) = 2 /\ output.value = Null

\* What the validator of an entry is declared to return for a field value.
Expected(entry, fields) ==
  IF entry[2] = "detached" THEN ValidateEmail(fields[entry[1]], TRUE)
  ELSE Apply(entry[2], fields[entry[1]])
RECURSIVE ExpectedErrors(_, _, _)
ExpectedErrors(fields, validators, i) ==
  IF i > Len(validators) THEN << >>
  ELSE LET result == Expected(validators[i], fields) IN
       (IF result.isValid THEN << >> ELSE Prefixed(validators[i][1], result.errors))
         \o ExpectedErrors(fields, validators, i + 1)
ExpectedValue(fields, validators) ==
  {<<validators[i][1], Expected(validators[i], fields).value>> :
     i \in {j \in DOMAIN validators :
              /\ Expected(validators[j], fields).isValid
              /\ Expected(validators[j], fields).value.t \notin {"null", "undefined"}}}
\* data[field] for every field of the call.
FieldsOf(call) == IF IsObject(call.data) THEN call.fields ELSE NoFields

\* C24: validateObject runs every field validator; its result is invalid
\* if and only if at least one field is invalid, and then errors is the
\* concatenation, in validator order, of each failing field's errors
\* prefixed with '<field>: '; when valid, value maps exactly the fields
\* whose validated value is non-null to those values.
C24_ValidateObject ==
  (~Pending /\ input.fn = "validateObject") =>
     LET errors == ExpectedErrors(FieldsOf(input), input.validators, 1) IN
     /\ Resulted
     /\ ~output.isValid <=> errors # << >>
     /\ ~output.isValid => output.errors = errors
     /\ output.isValid =>
          output.fields = ExpectedValue(FieldsOf(input), input.validators)

\* The validators that take one value and a required flag, the value the
\* flag has in the call, and the field name of the messages.
Scalar ==
  {"validateEmail", "validateRequired", "validateStringLength", "validateUUID",
   "validateNumber", "validateInteger", "validateDate", "validateEnum",
   "validateArray", "validatePhone", "validateUsername"}
IsRequired(call) ==
  call.fn = "validateRequired" \/ Default(call.required, TRUE)
FieldOf(call) ==
  CASE call.fn = "validateEmail" -> "Email"
    [] call.fn = "validatePhone" -> "Phone number"
    [] call.fn = "validateUsername" -> "Username"
    [] call.fn = "validateUUID" -> Default(call.fieldName, "ID")
    [] call.fn = "validateNumber" -> Default(call.fieldName, "Number")
    [] call.fn = "validateInteger" -> Default(call.fieldName, "Integer")
    [] call.fn = "validateDate" -> Default(call.fieldName, "Date")
    [] call.fn = "validateArray" -> Default(call.fieldName, "Array")
    [] OTHER -> Default(call.fieldName, "Field")
Absent(value) == value.t \in {"null", "undefined"} \/ value = Str(<< >>)
IsRequiredMessage(call) == <<(<<FieldOf(call), " is required">>)>>
\* A present value that is inside the constraint of the call, for the
\* validators whose constraint is given by the arguments alone.
InsideConstraint(call) ==
  \/ call.fn = "validateEnum" /\ call.value \in call.allowedValues
  \/ /\ call.fn \in {"validateNumber", "validateInteger"}
     /\ call.value.t = "number" /\ ~call.value.frac
     /\ call.value.n >= Default(call.range[1], MIN_SAFE_INTEGER)
     /\ call.value.n <= Default(call.range[2], MAX_SAFE_INTEGER)

\* C25: for every validator called with required = true, an absent value
\* (null, undefined or the empty string) yields an invalid result whose
\* errors are exactly ['<field> is required']; a present value, falsy ones
\* such as 0 or false included, never yields the 'is required' message,
\* and a present value inside the constraint is valid.
C25_Required ==
  (~Pending /\ input.fn \in Scalar /\ IsRequired(input)) =>
     /\ Resulted
     /\ IF Absent(input.value)
        THEN ~output.isValid /\ output.errors = IsRequiredMessage(input)
        ELSE /\ output.errors # IsRequiredMessage(input)
             /\ InsideConstraint(input) => output.isValid

\* C26: validateEmail normalises by trimming and lower-casing: an input
\* that has the address shape after normalisation yields a valid result
\* whose value is the normalised address, and validating that value again
\* returns it unchanged; a string without the address shape yields an
\* invalid result whose errors are exactly ['Invalid email format'].
C26_EmailNormalised ==
  (~Pending /\ input.fn = "validateEmail" /\ input.value.t = "string") =>
     LET normalised == Str(ToLowerCase(Trim(input.value.s))) IN
     /\ Resulted
     /\ IF TestEmail(normalised.s)
        THEN /\ output = Valid(normalised)
             /\ ValidateEmail(normalised, Default(input.required, TRUE))
                  = Valid(normalised)
        ELSE ~output.isValid /\ output.errors = <<(<<"Invalid email format">>)>>

\* ------------------------------------------------------------------ C27
\* The annotations, the value of one that is not set, the annotation a step
\* of a kind writes, and a step that returns without calling next.
Annotations == {"parsedBody", "validatedData", "validatedQuery", "user"}
Unset(a) == IF a = "validatedQuery" THEN {} ELSE Undefined
Own(kind) ==
  CASE kind \in {"json", "jsonBound"} -> {"parsedBody"}
    [] kind \in {"validate", "validateId", "validatePage"} -> {"validatedData"}
    [] kind = "queryv" -> {"validatedQuery"}
    [] kind = "auth" -> {"user"}
    [] OTHER -> {}
ShortCircuits(i) == AtStart(i) /\ Len(inv'[i].stack) < Len(inv[i].stack)

\* C27: the annotation bag is append-only along any chain of built-in
\* steps: while a request is in flight an annotation changes only in the
\* step that owns it, only when no earlier step has set it, and never in a
\* step that short-circuits.
C27_AppendOnly ==
  [][\A i \in Invocations :
       (inv[i].pc # "idle" /\ inv'[i].pc # "idle") =>
         \A a \in Annotations :
           inv'[i].event[a] # inv[i].event[a] =>
             /\ AtStart(i) /\ a \in Own(TopKind(inv[i]))
             /\ inv[i].event[a] = Unset(a)
             /\ ~ShortCircuits(i)]_vars

\* ------------------------------------------------------------ C28, C29
\* A timestamp the window has left at time `at`, and a list without them.
Stale(time, at) == at - time >= windowMs
FreshOnly(list, at) ==
  LET Fresh(time) == ~Stale(time, at) IN SelectSeq(list, Fresh)
\* The invocation moves from one place of the limiter to the next.
Moves(i, from, to) ==
  /\ AtRate(i, from)
  /\ inv'[i].stack # << >> /\ Len(inv'[i].stack) >= Len(inv[i].stack)
  /\ inv'[i].stack[Len(inv[i].stack)].at = to

\* C28: cleanup is lazy and per caller: a request of caller A changes only
\* A's list, by pruning A's timestamps that the window has left and then
\* recording the request when it is admitted; every other caller's list,
\* stale timestamps included, stays as it is, and no entry is ever removed
\* from the table.
C28_LazyCleanup ==
  [][/\ DOMAIN requests \subseteq DOMAIN requests'
     /\ \A i \in Invocations :
          LET c == inv[i].rl.clientId IN
          /\ Moves(i, "prune", "check") =>
               Get(requests', c) = FreshOnly(Get(requests, c), now)
          /\ Moves(i, "record", "tail") =>
               Get(requests', c) = Append(Get(requests, c), now)
     /\ \A c \in DOMAIN requests' :
          Get(requests', c) # Get(requests, c) =>
            \E i \in Invocations :
              /\ inv[i].rl.clientId = c /\ c = ClientId(inv[i].ip)
              /\ Moves(i, "prune", "check") \/ Moves(i, "record", "tail")]_vars

\* C28 witness: the list of 10.0.0.1 has just been pruned to nothing while
\* the list of the callers without an ip still holds a stale timestamp.
C28_Witness ==
  \E i \in Invocations :
    /\ AtRate(i, "check") /\ inv[i].rl.clientId = "10.0.0.1"
    /\ "10.0.0.1" \in DOMAIN requests /\ requests["10.0.0.1"] = << >>
    /\ "unknown" \in DOMAIN requests
    /\ \E t \in Range(requests["unknown"]) : Stale(t, now)

\* The limiter has answered an invocation with status 429.
Rejected(l) ==
  \E o \in Range(l.outs) :
    Kind(o.k) = "rate" /\ StatusResponse(o.comp) /\ o.comp.status = 429

\* C29: through one rate-limiting step with maximum N every caller's
\* stored list has at most N entries; a request answered with 429 records
\* no timestamp (it never reaches the push, so the stored timestamps inside
\* the window are exactly those of the admitted requests); and the requests
\* without a source ip are all counted under the one identity 'unknown'.
C29_TableBounded ==
  /\ \A c \in DOMAIN requests :
       /\ Len(requests[c]) <= maxRequests
       /\ \A t \in Range(requests[c]) :
            ~Stale(t, now) => Count(requests[c], t) = Count(Get(admitted, c), t)
  /\ \A i \in Invocations :
       Rejected(inv[i]) =>
         \A o \in Range(inv[i].outs) : Kind(o.k) = "rate" => o.nx = 0
  /\ DOMAIN requests \subseteq {"unknown"} \cup (SourceIps \ {NoIp})
  /\ \A i \in Invocations :
       (inv[i].pc = "awaiting" /\ inv[i].ip = NoIp) =>
         "unknown" \in DOMAIN requests

\* C29 witness: a request without a source ip was answered with 429 while
\* the list of 'unknown' holds the maximum of two timestamps.
C29_Witness ==
  \E i \in Invocations :
    /\ Rejected(inv[i]) /\ inv[i].ip = NoIp
    /\ maxRequests = 2
    /\ "unknown" \in DOMAIN requests /\ Len(requests["unknown"]) = 2

\* ------------------------------------------------------------------ C30
\* The operations the services declare with a fallback, and the fallbacks.
WithFallback(call) ==
  /\ call.version = "handleError"
  /\ \/ call.service = "DatabaseService" /\ call.fn \in {"get", "batchGet", "query", "scan"}
     \/ call.service = "MessageService" /\ call.fn = "receive"
DeclaredFallback(call) ==
  IF call.fn \in {"get", "receive"} THEN Null ELSE Arr(0)
Settled == output.c \in {"resolved", "rejected"}

\* C30: when the underlying SDK call fails, an operation declared with a
\* fallback (database get -> null; batchGet, query, scan -> []; message
\* receive -> null) resolves to that fallback and never rejects, while an
\* operation without a fallback rejects with the original error unchanged.
C30_Fallbacks ==
  (input.fn \in DatabaseOps \cup MessageOps /\ Settled /\ output.failed # NoError) =>
     IF WithFallback(input)
     THEN output.c = "resolved" /\ output.value = DeclaredFallback(input)
     ELSE output.c = "rejected" /\ output.err = output.failed

\* C30 witness: the SDK call of a database query failed and the query
\* resolved to its fallback, the empty list.
C30_Witness ==
  /\ input.fn = "query" /\ input.version = "handleError"
  /\ output.c = "resolved" /\ output.failed # NoError /\ output.value = Arr(0)
  /\ output.logged = <<"query">>

====
